---- MODULE Spec2Model ----
(***************************************************************************)
(* Model of lib/ansible/modules/files/file.py: the "file" module that      *)
(* brings one filesystem path into a declared state (absent, file,         *)
(* directory, link, hard, touch).  The filesystem is a map from canonical  *)
(* absolute paths to objects; every os.* call of the module is an operator *)
(* on that map, and every handler is a sequence of steps, one per          *)
(* mutating system call, so that intermediate states are observable.       *)
(***************************************************************************)
EXTENDS Integers, Sequences, FiniteSets, TLC

VARIABLES fs,      \* the filesystem: canonical path -> object
          run,     \* the module invocation: parameters, locals, position
          fs0,     \* the filesystem when the current invocation started
          nruns    \* number of invocations started so far

vars == <<fs, run, fs0, nruns>>

(***************************************************************************)
(* Bounds of the model.                                                    *)
(***************************************************************************)
MaxRuns == 2        \* consecutive invocations of the module
MaxSymlinks == 3    \* symlinks followed in one resolution before ELOOP
MaxRecursion == 2   \* nested calls of recursive_set_attributes before RecursionError

(***************************************************************************)
(* Path strings.  A path is a sequence of components; an absolute path     *)
(* starts with the component "/".                                          *)
(***************************************************************************)
Names == {"p", "s", "o", "d", "m", "t"}
Root == <<"/">>
Cwd == <<"/", "d">>                      \* working directory of the process
Paths == {<<"/", a>> : a \in Names} \cup {<<"/", a, b>> : a, b \in Names}
None == <<"None">>                       \* Python's None for an unset src

isabs(p) == Len(p) > 0 /\ p[1] = "/"
join(a, b) == IF isabs(b) THEN b ELSE a \o b
dirname(p) == IF Len(p) <= 1 THEN p ELSE SubSeq(p, 1, Len(p) - 1)
basename(p) == IF Len(p) = 0 \/ p = Root THEN <<>> ELSE <<p[Len(p)]>>
abspath(p) == IF isabs(p) THEN p ELSE Cwd \o p

(***************************************************************************)
(* Objects.  The filesystem maps the names in use to their objects; NoObj  *)
(* stands for a free name.  Two names with the same inode number on the    *)
(* same device are hard links of one object.                               *)
(***************************************************************************)
NoObj == [kind |-> "none", ino |-> 0, text |-> <<>>, owner |-> "root", mtime |-> 0]
RootObj == [kind |-> "dir", ino |-> 0, text |-> <<>>, owner |-> "root", mtime |-> 0]
DevOf(c) == IF Len(c) >= 2 /\ c[2] = "m" THEN 2 ELSE 1
Get(f, c) == IF c = Root THEN RootObj ELSE IF c \in DOMAIN f THEN f[c] ELSE NoObj
SameObj(f, a, b) ==
    /\ Get(f, a).kind # "none" /\ Get(f, b).kind # "none"
    /\ DevOf(a) = DevOf(b) /\ Get(f, a).ino = Get(f, b).ino
Children(f, c) == {q \in DOMAIN f : Len(q) = Len(c) + 1 /\ SubSeq(q, 1, Len(c)) = c}
Under(c, q) == Len(q) > Len(c) /\ SubSeq(q, 1, Len(c)) = c
UsedInos(f, dev) == {f[q].ino : q \in {x \in DOMAIN f : DevOf(x) = dev}}
FreshIno(f, dev) ==
    CHOOSE n \in 1..(Cardinality(UsedInos(f, dev)) + 1) :
        n \notin UsedInos(f, dev) /\ \A m \in 1..(n - 1) : m \in UsedInos(f, dev)

(***************************************************************************)
(* Path resolution as the kernel does it (strict) and as os.path.realpath  *)
(* does it (not strict: missing components are kept, a loop leaves the     *)
(* link unresolved).                                                       *)
(***************************************************************************)
RECURSIVE Walk(_, _, _, _, _, _)
Walk(f, cur, rest, followLast, strict, fuel) ==
    IF rest = <<>> THEN [ok |-> TRUE, path |-> cur]
    ELSE IF strict /\ Get(f, cur).kind # "dir" THEN [ok |-> FALSE, path |-> cur \o rest]
    ELSE LET cand == Append(cur, Head(rest))
             o == Get(f, cand)
         IN  IF o.kind = "link" /\ (Len(rest) > 1 \/ followLast)
             THEN IF fuel = 0 THEN [ok |-> FALSE, path |-> cand \o Tail(rest)]
                  ELSE Walk(f, IF isabs(o.text) THEN Root ELSE cur,
                            (IF isabs(o.text) THEN Tail(o.text) ELSE o.text) \o Tail(rest),
                            followLast, strict, fuel - 1)
             ELSE Walk(f, cand, Tail(rest), followLast, strict, fuel)

Resolve(f, p, followLast) == Walk(f, Root, Tail(abspath(p)), followLast, TRUE, MaxSymlinks)
lstat(f, p) == LET r == Resolve(f, p, FALSE) IN IF r.ok THEN Get(f, r.path) ELSE NoObj
stat(f, p) == LET r == Resolve(f, p, TRUE) IN IF r.ok THEN Get(f, r.path) ELSE NoObj
lexists(f, p) == lstat(f, p).kind # "none"
exists(f, p) == stat(f, p).kind # "none"
islink(f, p) == lstat(f, p).kind = "link"
isdir(f, p) == stat(f, p).kind = "dir"
readlink(f, p) == lstat(f, p).text
realpath(f, p) == Walk(f, Root, Tail(abspath(p)), TRUE, FALSE, MaxSymlinks).path
st_nlink(f, p) == LET r == Resolve(f, p, TRUE)
                  IN  Cardinality({q \in DOMAIN f : SameObj(f, q, r.path)})
listdir(f, p) == Children(f, Resolve(f, p, TRUE).path)

(***************************************************************************)
(* System calls.  Each returns the error ("ok" when it succeeded) and the  *)
(* filesystem it leaves.  io is the environment's choice to make the call  *)
(* fail for a reason outside the model (EACCES, ENOSPC, EIO).              *)
(***************************************************************************)
\* Body applied to the value of v, v evaluated once
With(v, Body(_)) == CHOOSE y \in {Body(x) : x \in {v}} : TRUE
Ret(e, f) == [err |-> e, fs |-> f]
Put(f, c, o) == [q \in DOMAIN f \cup {c} |-> IF q = c THEN o ELSE f[q]]
Remove(f, cs) == [q \in DOMAIN f \ cs |-> f[q]]
SetField(f, c, fld, v) ==
    [q \in DOMAIN f |-> IF SameObj(f, q, c) THEN [f[q] EXCEPT ![fld] = v] ELSE f[q]]
ParentOk(f, r) == r.ok /\ r.path \in Paths /\ Get(f, dirname(r.path)).kind = "dir"
NewObj(f, c, k, txt) ==
    [kind |-> k, ino |-> FreshIno(f, DevOf(c)), text |-> txt, owner |-> "root", mtime |-> 0]

os_unlink(f, p, io) ==
    LET r == Resolve(f, p, FALSE) IN
    IF ~r.ok \/ Get(f, r.path).kind = "none" THEN Ret("ENOENT", f)
    ELSE IF Get(f, r.path).kind = "dir" \/ r.path = Root THEN Ret("EISDIR", f)
    ELSE IF io THEN Ret("EACCES", f)
    ELSE Ret("ok", Remove(f, {r.path}))

os_rmdir(f, p, io) ==
    LET r == Resolve(f, p, FALSE) IN
    IF ~r.ok \/ Get(f, r.path).kind = "none" THEN Ret("ENOENT", f)
    ELSE IF Get(f, r.path).kind # "dir" \/ r.path = Root THEN Ret("ENOTDIR", f)
    ELSE IF Children(f, r.path) # {} THEN Ret("ENOTEMPTY", f)
    ELSE IF io THEN Ret("EACCES", f)
    ELSE Ret("ok", Remove(f, {r.path}))

shutil_rmtree(f, p, io) ==
    LET r == Resolve(f, p, FALSE) IN
    IF ~r.ok \/ Get(f, r.path).kind = "none" THEN Ret("ENOENT", f)
    ELSE IF Get(f, r.path).kind # "dir" \/ r.path = Root THEN Ret("ENOTDIR", f)
    ELSE IF io THEN Ret("EACCES", f)
    ELSE Ret("ok", Remove(f, {q \in DOMAIN f : q = r.path \/ Under(r.path, q)}))

os_mkdir(f, p, io) ==
    LET r == Resolve(f, p, FALSE) IN
    IF r.ok /\ Get(f, r.path).kind # "none" THEN Ret("EEXIST", f)
    ELSE IF ~ParentOk(f, r) THEN Ret("ENOENT", f)
    ELSE IF io THEN Ret("EACCES", f)
    ELSE Ret("ok", Put(f, r.path, NewObj(f, r.path, "dir", <<>>)))

\* open(b_path, 'wb').close(): follows a symlink in the last component
open_wb(f, p, io) ==
    LET r == Resolve(f, p, TRUE) IN
    IF r.ok /\ Get(f, r.path).kind = "dir" THEN Ret("EISDIR", f)
    ELSE IF r.ok /\ Get(f, r.path).kind = "file" THEN Ret("ok", f)
    ELSE IF ~ParentOk(f, r) THEN Ret("ENOENT", f)
    ELSE IF io THEN Ret("EACCES", f)
    ELSE Ret("ok", Put(f, r.path, NewObj(f, r.path, "file", <<>>)))

os_utime(f, p, now, io) ==
    LET r == Resolve(f, p, TRUE) IN
    IF ~r.ok \/ Get(f, r.path).kind = "none" THEN Ret("ENOENT", f)
    ELSE IF io \/ r.path = Root THEN Ret("EACCES", f)
    ELSE Ret("ok", SetField(f, r.path, "mtime", now))

os_symlink(f, text, p, io) ==
    LET r == Resolve(f, p, FALSE) IN
    IF r.ok /\ Get(f, r.path).kind # "none" THEN Ret("EEXIST", f)
    ELSE IF ~ParentOk(f, r) THEN Ret("ENOENT", f)
    ELSE IF io THEN Ret("EACCES", f)
    ELSE Ret("ok", Put(f, r.path, NewObj(f, r.path, "link", text)))

\* link(2) on Linux does not follow a symlink given as the source
os_link(f, src, p, io) ==
    LET s == Resolve(f, src, FALSE)
        r == Resolve(f, p, FALSE) IN
    IF ~s.ok \/ Get(f, s.path).kind = "none" THEN Ret("ENOENT", f)
    ELSE IF r.ok /\ Get(f, r.path).kind # "none" THEN Ret("EEXIST", f)
    ELSE IF ~ParentOk(f, r) THEN Ret("ENOENT", f)
    ELSE IF Get(f, s.path).kind = "dir" THEN Ret("EPERM", f)
    ELSE IF DevOf(s.path) # DevOf(r.path) THEN Ret("EXDEV", f)
    ELSE IF io THEN Ret("EACCES", f)
    ELSE Ret("ok", Put(f, r.path, Get(f, s.path)))

\* rename(2): replaces the destination in one step; two names of the same
\* object are left alone; a directory is replaced only by a directory
os_rename(f, old, new, io) ==
    LET s == Resolve(f, old, FALSE)
        r == Resolve(f, new, FALSE) IN
    IF ~s.ok \/ Get(f, s.path).kind = "none" \/ ~ParentOk(f, r) THEN Ret("ENOENT", f)
    ELSE IF SameObj(f, s.path, r.path) THEN Ret("ok", f)
    ELSE IF Get(f, r.path).kind = "dir" /\ Get(f, s.path).kind # "dir" THEN Ret("EISDIR", f)
    ELSE IF Get(f, s.path).kind = "dir" THEN Ret("EINVAL", f)  \* never used by the module
    ELSE IF io THEN Ret("EACCES", f)
    ELSE Ret("ok", Remove(Put(f, r.path, Get(f, s.path)), {s.path}))

(***************************************************************************)
(* AnsibleModule (module_utils/basic.py).                                  *)
(***************************************************************************)
Result(e, c, f) == [err |-> e, changed |-> c, fs |-> f]

\* the path the attributes go to: the link's target when following
load_file_common_arguments(f, path, follow) ==
    IF follow /\ islink(f, path) THEN realpath(f, path) ELSE path

\* one attribute, the owner, compared and set without following a link;
\* check mode only reports; "unset" leaves the object alone
set_fs_attributes_if_different(f, path, owner, changed, check, io) ==
    IF owner = "unset" THEN Result("ok", changed, f)
    ELSE IF ~lexists(f, path)
         THEN IF check THEN Result("ok", TRUE, f) ELSE Result("ENOENT", changed, f)
    ELSE IF lstat(f, path).owner = owner THEN Result("ok", changed, f)
    ELSE IF check THEN Result("ok", TRUE, f)
    ELSE IF io THEN Result("EACCES", changed, f)
    ELSE Result("ok", TRUE, SetField(f, Resolve(f, path, FALSE).path, "owner", owner))

(***************************************************************************)
(* The invocation.  Go, Fail and Exit build the next position.             *)
(***************************************************************************)
Go(f, r, pc) == [fs |-> f, run |-> [r EXCEPT !.pc = pc]]
Fail(f, r, e) == [fs |-> f, run |-> [r EXCEPT !.pc = "failed", !.err = e]]
Exit(f, r, c) == [fs |-> f, run |-> [r EXCEPT !.pc = "done", !.changed = c]]
\* the invocation has called set_fs_attributes_if_different for the paths ps
Noted(r, ps) == [r EXCEPT !.attrd = @ \cup ps]

\* mutant: the path is classified by what it leads to
get_state_followed(f, b_path) ==
    IF exists(f, b_path)
    THEN IF isdir(f, b_path) THEN "directory"
         ELSE IF islink(f, b_path) THEN "link"
         ELSE IF st_nlink(f, b_path) > 1 THEN "hard"
         ELSE "file"
    ELSE "absent"

get_state(f, b_path) ==
    IF lexists(f, b_path)
    THEN IF islink(f, b_path) THEN "link"
         ELSE IF isdir(f, b_path) THEN "directory"
         ELSE IF st_nlink(f, b_path) > 1 THEN "hard"
         ELSE "file"
    ELSE "absent"

\* mutant: recurse is accepted with every state
additional_parameter_handling_any(f, params) ==
    LET prev_state == get_state(f, params.path)
    IN  IF params.state = "None"
        THEN IF prev_state # "absent" THEN prev_state
             ELSE IF params.recurse THEN "directory" ELSE "file"
        ELSE params.state

\* the state the parameters ask for, "ParameterError" when recurse is misused
additional_parameter_handling(f, params) ==
    LET prev_state == get_state(f, params.path)
        state == IF params.state = "None"
                 THEN IF prev_state # "absent" THEN prev_state
                      ELSE IF params.recurse THEN "directory" ELSE "file"
                 ELSE params.state
    IN  IF params.recurse /\ state # "directory" THEN "ParameterError" ELSE state

\* main() up to the call of the handler; rerun records that the invocation
\* before this one had the same parameters and succeeded
main(f, params, rerun) ==
    LET state == additional_parameter_handling(f, params)
        bname == IF params.src # None THEN basename(params.src) ELSE <<>>
        path == IF state \notin {"link", "absent"} /\ isdir(f, params.path) /\ bname # <<>>
                THEN join(params.path, bname) ELSE params.path
    IN  [pc |-> IF state = "ParameterError" THEN "failed" ELSE state,
         params |-> params, state |-> state,
         path |-> path, prev_state |-> get_state(f, path),
         src |-> params.src, file_args |-> path, changed |-> FALSE, i |-> 0,
         warn |-> FALSE, err |-> IF state = "ParameterError" THEN state ELSE "ok",
         rerun |-> rerun, now |-> 0, log |-> <<>>, raced |-> FALSE, attrd |-> {}]

\* mutant: the removal is not guarded by check mode
ensure_absent_unguarded(f, r, io) ==
    IF r.prev_state # "absent"
    THEN LET x == IF r.prev_state = "directory" THEN shutil_rmtree(f, r.path, io)
                  ELSE os_unlink(f, r.path, io)
         IN  IF x.err \notin {"ok", "ENOENT"} THEN Fail(x.fs, r, x.err) ELSE Exit(x.fs, r, TRUE)
    ELSE Exit(f, r, FALSE)

\* mutant: a directory is removed without its descendants
ensure_absent_top_only(f, r, io) ==
    IF r.prev_state # "absent"
    THEN IF ~r.params.check
         THEN IF r.prev_state = "directory"
              THEN IF io THEN Fail(f, r, "EACCES") ELSE Exit(Remove(f, {r.path}), r, TRUE)
              ELSE LET x == os_unlink(f, r.path, io)
                   IN  IF x.err \notin {"ok", "ENOENT"} THEN Fail(x.fs, r, x.err)
                       ELSE Exit(x.fs, r, TRUE)
         ELSE Exit(f, r, TRUE)
    ELSE Exit(f, r, FALSE)

\* mutant: every error of the unlink is taken for "already gone"
ensure_absent_any_error(f, r, io) ==
    IF r.prev_state # "absent"
    THEN IF ~r.params.check
         THEN IF r.prev_state = "directory"
              THEN LET x == shutil_rmtree(f, r.path, io)
                   IN  IF x.err # "ok" THEN Fail(x.fs, r, x.err) ELSE Exit(x.fs, r, TRUE)
              ELSE Exit(os_unlink(f, r.path, io).fs, r, TRUE)
         ELSE Exit(f, r, TRUE)
    ELSE Exit(f, r, FALSE)

ensure_absent(f, r, io) ==
    IF r.prev_state # "absent"
    THEN IF ~r.params.check
         THEN IF r.prev_state = "directory"
              THEN LET x == shutil_rmtree(f, r.path, io)
                   IN  IF x.err # "ok" THEN Fail(x.fs, r, x.err) ELSE Exit(x.fs, r, TRUE)
              ELSE LET x == os_unlink(f, r.path, io)
                   IN  IF x.err \notin {"ok", "ENOENT"} THEN Fail(x.fs, r, x.err)
                       ELSE Exit(x.fs, r, TRUE)
         ELSE Exit(f, r, TRUE)
    ELSE Exit(f, r, FALSE)

\* mutant: the times of an existing object are left alone
execute_touch_no_utime(f, r, io) ==
    IF r.params.check THEN Exit(f, r, TRUE)
    ELSE LET x == IF r.prev_state = "absent" THEN open_wb(f, r.path, io)
                  ELSE IF r.prev_state \in {"file", "directory", "hard"} THEN Ret("ok", f)
                  ELSE IF r.prev_state = "link" /\ r.params.follow
                       THEN os_utime(f, readlink(f, r.path), r.now, io)
                  ELSE Ret("AnsibleModuleError", f)
         IN  IF x.err # "ok" THEN Fail(x.fs, r, x.err)
             ELSE Go(x.fs, [r EXCEPT !.changed = TRUE], "touch_attrs")

\* execute_touch up to the attributes: create the file or set the times
execute_touch(f, r, io) ==
    IF r.params.check THEN Exit(f, r, TRUE)
    ELSE LET x == IF r.prev_state = "absent" THEN open_wb(f, r.path, io)
                  ELSE IF r.prev_state \in {"file", "directory", "hard"}
                       THEN os_utime(f, r.path, r.now, io)
                  ELSE IF r.prev_state = "link" /\ r.params.follow
                       THEN os_utime(f, readlink(f, r.path), r.now, io)
                  ELSE Ret("AnsibleModuleError", f)
         IN  IF x.err # "ok" THEN Fail(x.fs, r, x.err)
             ELSE Go(x.fs, [r EXCEPT !.changed = TRUE], "touch_attrs")

\* execute_touch, the attributes: a file this run created is removed when
\* fail_json was called while setting them
touch_attrs(f, r, io) ==
    LET file_args == load_file_common_arguments(f, r.path, r.params.follow)
        a == set_fs_attributes_if_different(f, file_args, r.params.owner, TRUE, FALSE, io)
        n == Noted(r, {file_args})
    IN  IF a.err = "EACCES"
        THEN IF r.prev_state = "absent"
             THEN Fail(os_unlink(a.fs, r.path, FALSE).fs, n, a.err)
             ELSE Fail(a.fs, n, a.err)
        ELSE IF a.err # "ok" THEN Fail(a.fs, n, a.err)
        ELSE Exit(a.fs, n, TRUE)

\* mutant: with follow the attributes go to the link, not to its target
ensure_file_attributes_on_link(f, r, io) ==
    LET fol == r.prev_state # "file" /\ r.params.follow /\ r.prev_state = "link"
        b_path == IF fol THEN realpath(f, r.path) ELSE r.path
        prev_state == IF fol THEN get_state(f, b_path) ELSE r.prev_state
        r1 == [r EXCEPT !.path = b_path, !.prev_state = prev_state, !.file_args = r.path]
    IN  IF prev_state \notin {"file", "hard"} THEN Fail(f, r1, "conflict")
        ELSE LET a == set_fs_attributes_if_different(f, r.path, r.params.owner, FALSE,
                                                     r.params.check, io)
             IN  IF a.err # "ok" THEN Fail(a.fs, r1, a.err) ELSE Exit(a.fs, r1, a.changed)

\* mutant: a missing file is created instead of being a conflict
ensure_file_attributes_creates(f, r, io) ==
    LET fol == r.prev_state # "file" /\ r.params.follow /\ r.prev_state = "link"
        b_path == IF fol THEN realpath(f, r.path) ELSE r.path
        prev_state == IF fol THEN get_state(f, b_path) ELSE r.prev_state
        r1 == [r EXCEPT !.path = b_path, !.prev_state = prev_state, !.file_args = b_path]
    IN  IF prev_state = "absent" /\ ~r.params.check
        THEN LET x == open_wb(f, b_path, io)
             IN  IF x.err # "ok" THEN Fail(x.fs, r1, x.err) ELSE Exit(x.fs, r1, TRUE)
        ELSE IF prev_state \notin {"file", "hard"} THEN Fail(f, r1, "conflict")
        ELSE LET a == set_fs_attributes_if_different(f, b_path, r.params.owner, FALSE,
                                                     r.params.check, io)
             IN  IF a.err # "ok" THEN Fail(a.fs, r1, a.err) ELSE Exit(a.fs, r1, a.changed)

ensure_file_attributes(f, r, io) ==
    LET fol == r.prev_state # "file" /\ r.params.follow /\ r.prev_state = "link"
        b_path == IF fol THEN realpath(f, r.path) ELSE r.path
        prev_state == IF fol THEN get_state(f, b_path) ELSE r.prev_state
        file_args == IF fol THEN b_path
                     ELSE load_file_common_arguments(f, r.path, r.params.follow)
        r1 == [r EXCEPT !.path = b_path, !.prev_state = prev_state, !.file_args = file_args]
    IN  IF prev_state \notin {"file", "hard"} THEN Fail(f, r1, "conflict")
        ELSE LET a == set_fs_attributes_if_different(f, file_args, r.params.owner, FALSE,
                                                     r.params.check, io)
                 n == Noted(r1, {file_args})
             IN  IF a.err # "ok" THEN Fail(a.fs, n, a.err) ELSE Exit(a.fs, n, a.changed)

(***************************************************************************)
(* recursive_set_attributes.  os.walk yields the directory and its real    *)
(* subdirectories, top down; for each it lists b_dirs + b_files, a symlink *)
(* to a directory being one of b_dirs.  Visits is the sequence of calls of *)
(* set_fs_attributes_if_different: the path, and for the target of a       *)
(* followed link the link it was reached from; ok is FALSE when the        *)
(* recursion through links exhausts the interpreter's stack.               *)
(***************************************************************************)
NameOrder == <<"d", "m", "o", "p", "s", "t">>    \* the order os.listdir returns names in
Listing(f, d) ==
    SelectSeq([i \in 1..Len(NameOrder) |-> Append(d, NameOrder[i])], LAMBDA q : q \in DOMAIN f)
WalkList(f, d) ==
    SelectSeq(Listing(f, d), LAMBDA q : isdir(f, q))
        \o SelectSeq(Listing(f, d), LAMBDA q : ~isdir(f, q))
RECURSIVE Flat(_)
Flat(ss) == IF ss = <<>> THEN <<>> ELSE Head(ss) \o Flat(Tail(ss))
RECURSIVE WalkRoots(_, _)
WalkRoots(f, d) ==
    With(SelectSeq(Listing(f, d), LAMBDA q : f[q].kind = "dir"), LAMBDA subs :
        <<d>> \o Flat([i \in 1..Len(subs) |-> WalkRoots(f, subs[i])]))
LinkTarget(f, e) == join(dirname(e), readlink(f, e))
Call(p, e) == [path |-> p, of |-> e]

RECURSIVE Visits(_, _, _, _)
RECURSIVE VisitEntries(_, _, _, _)

\* mutant: the target of a followed link is patched before the link itself
VisitEntry_target_first(f, e, follow, fuel) ==
    IF ~islink(f, e) \/ ~follow \/ ~exists(f, LinkTarget(f, e))
    THEN [ok |-> TRUE, seq |-> <<Call(e, <<>>)>>]
    ELSE With(LinkTarget(f, e), LAMBDA t :
         With(IF ~isdir(f, t) THEN [ok |-> TRUE, seq |-> <<>>]
              ELSE IF fuel = 0 THEN [ok |-> FALSE, seq |-> <<>>]
              ELSE Visits(f, t, follow, fuel - 1), LAMBDA sub :
            [ok |-> sub.ok,
             seq |-> (IF sub.ok THEN <<Call(t, e)>> ELSE <<>>) \o sub.seq \o <<Call(e, <<>>)>>]))

\* mutant: a link is patched but never followed
VisitEntry_link_only(f, e, follow, fuel) ==
    [ok |-> TRUE, seq |-> <<Call(e, <<>>)>>]

\* mutant: a link whose target is missing is followed all the same
VisitEntry_follow_broken(f, e, follow, fuel) ==
    IF ~islink(f, e) \/ ~follow
    THEN [ok |-> TRUE, seq |-> <<Call(e, <<>>)>>]
    ELSE With(LinkTarget(f, e), LAMBDA t :
         With(IF ~isdir(f, t) THEN [ok |-> TRUE, seq |-> <<>>]
              ELSE IF fuel = 0 THEN [ok |-> FALSE, seq |-> <<>>]
              ELSE Visits(f, t, follow, fuel - 1), LAMBDA sub :
            [ok |-> sub.ok,
             seq |-> <<Call(e, <<>>)>> \o sub.seq \o (IF sub.ok THEN <<Call(t, e)>> ELSE <<>>)]))

\* mutant: a link is followed whether follow is set or not
VisitEntry_follows(f, e, follow, fuel) ==
    IF ~islink(f, e) \/ ~exists(f, LinkTarget(f, e))
    THEN [ok |-> TRUE, seq |-> <<Call(e, <<>>)>>]
    ELSE With(LinkTarget(f, e), LAMBDA t :
         With(IF ~isdir(f, t) THEN [ok |-> TRUE, seq |-> <<>>]
              ELSE IF fuel = 0 THEN [ok |-> FALSE, seq |-> <<>>]
              ELSE Visits(f, t, TRUE, fuel - 1), LAMBDA sub :
            [ok |-> sub.ok,
             seq |-> <<Call(e, <<>>)>> \o sub.seq \o (IF sub.ok THEN <<Call(t, e)>> ELSE <<>>)]))

\* the body of the loop for one entry: the entry itself, then for a link
\* that is followed the contents of its target and the target
VisitEntry(f, e, follow, fuel) ==
    IF ~islink(f, e) \/ ~follow \/ ~exists(f, LinkTarget(f, e))
    THEN [ok |-> TRUE, seq |-> <<Call(e, <<>>)>>]
    ELSE With(LinkTarget(f, e), LAMBDA t :
         With(IF ~isdir(f, t) THEN [ok |-> TRUE, seq |-> <<>>]
              ELSE IF fuel = 0 THEN [ok |-> FALSE, seq |-> <<>>]
              ELSE Visits(f, t, follow, fuel - 1), LAMBDA sub :
            [ok |-> sub.ok,
             seq |-> <<Call(e, <<>>)>> \o sub.seq \o (IF sub.ok THEN <<Call(t, e)>> ELSE <<>>)]))

\* the entries in turn; a RecursionError ends the loop
VisitEntries(f, es, follow, fuel) ==
    IF es = <<>> THEN [ok |-> TRUE, seq |-> <<>>]
    ELSE With(VisitEntry(f, Head(es), follow, fuel), LAMBDA h :
         IF ~h.ok THEN h
         ELSE With(VisitEntries(f, Tail(es), follow, fuel), LAMBDA t :
                [ok |-> t.ok, seq |-> h.seq \o t.seq]))

Visits(f, b_path, follow, fuel) ==
    IF ~isdir(f, b_path) THEN [ok |-> TRUE, seq |-> <<>>]
    ELSE With(WalkRoots(f, Resolve(f, b_path, TRUE).path), LAMBDA roots :
         VisitEntries(f, Flat([i \in 1..Len(roots) |-> WalkList(f, roots[i])]), follow, fuel))

\* the attributes applied to every path of ps; the order does not matter,
\* a failing chown is the first one attempted
SetAll(f, ps, owner, changed, check, io) ==
    With({Resolve(f, p, FALSE).path : p \in {x \in ps : lexists(f, x) /\ lstat(f, x).owner # owner}},
         LAMBDA differ :
         With(\E p \in ps : ~lexists(f, p), LAMBDA gone :
            IF owner = "unset" THEN Result("ok", changed, f)
            ELSE IF check THEN Result("ok", changed \/ differ # {} \/ gone, f)
            ELSE IF gone THEN Result("ENOENT", changed, f)
            ELSE IF differ = {} THEN Result("ok", changed, f)
            ELSE IF io THEN Result("EACCES", changed, f)
            ELSE Result("ok", TRUE,
                        [q \in DOMAIN f |->
                            IF \E c \in differ : SameObj(f, q, c)
                            THEN [f[q] EXCEPT !.owner = owner] ELSE f[q]])))

\* the calls made: all of them, or up to the chown that failed
Made(f, seq, owner, check, io) ==
    IF io /\ ~check /\ owner # "unset" /\ \E i \in 1..Len(seq) : lstat(f, seq[i].path).owner # owner
    THEN SubSeq(seq, 1, CHOOSE i \in 1..Len(seq) :
                            /\ lstat(f, seq[i].path).owner # owner
                            /\ \A j \in 1..(i - 1) : lstat(f, seq[j].path).owner = owner)
    ELSE seq

recursive_set_attributes(f, b_path, follow, owner, check, io) ==
    With(Visits(f, b_path, follow, MaxRecursion), LAMBDA v :
        With(SetAll(f, {v.seq[i].path : i \in 1..Len(v.seq)}, owner, FALSE, check, io), LAMBDA a :
            [err |-> IF a.err = "ok" /\ ~v.ok THEN "RecursionError" ELSE a.err,
             changed |-> a.changed, fs |-> a.fs,
             log |-> Made(f, v.seq, owner, check, io)]))

(***************************************************************************)
(* ensure_directory: the checks, then one step per system call.            *)
(***************************************************************************)
curpath(r) == SubSeq(r.path, 1, r.i + 1)
NextSegment(f, r) ==
    IF r.i + 1 = Len(r.path) THEN Go(f, r, "dir_attrs")
    ELSE Go(f, [r EXCEPT !.i = r.i + 1], "mkdir_check")

\* mutant: with force an object in the way is removed and the path made
ensure_directory_force(f, r, io) ==
    LET fol == r.params.follow /\ r.prev_state = "link"
        b_path == IF fol THEN realpath(f, r.path) ELSE r.path
        prev_state == IF fol THEN get_state(f, b_path) ELSE r.prev_state
        r1 == [r EXCEPT !.path = b_path, !.prev_state = prev_state, !.i = 1,
                        !.file_args = load_file_common_arguments(f, r.path, r.params.follow)]
    IN  IF prev_state = "absent"
        THEN IF r.params.check THEN Exit(f, r1, TRUE) ELSE Go(f, r1, "mkdir_check")
        ELSE IF prev_state # "directory"
             THEN IF r.params.force /\ ~r.params.check
                  THEN Go(os_unlink(f, b_path, FALSE).fs, r1, "mkdir_check")
                  ELSE Fail(f, r1, "conflict")
        ELSE Go(f, r1, "dir_attrs")

ensure_directory(f, r, io) ==
    LET fol == r.params.follow /\ r.prev_state = "link"
        b_path == IF fol THEN realpath(f, r.path) ELSE r.path
        prev_state == IF fol THEN get_state(f, b_path) ELSE r.prev_state
        r1 == [r EXCEPT !.path = b_path, !.prev_state = prev_state, !.i = 1,
                        !.file_args = load_file_common_arguments(f, r.path, r.params.follow)]
    IN  IF prev_state = "absent"
        THEN IF r.params.check THEN Exit(f, r1, TRUE) ELSE Go(f, r1, "mkdir_check")
        ELSE IF prev_state # "directory" THEN Fail(f, r1, "conflict")
        ELSE Go(f, r1, "dir_attrs")

\* mutant: a segment that exists gets the attributes too
mkdir_check_every(f, r, io) ==
    IF ~exists(f, curpath(r)) THEN Go(f, r, "mkdir") ELSE Go(f, r, "mkdir_attrs")

mkdir_check(f, r, io) ==
    IF ~exists(f, curpath(r)) THEN Go(f, r, "mkdir") ELSE NextSegment(f, r)

\* mutant: a segment another process made counts as made by this run
mkdir_segment_counts(f, r, io) ==
    LET x == os_mkdir(f, curpath(r), io)
    IN  IF x.err = "ok" \/ (x.err = "EEXIST" /\ isdir(f, curpath(r)))
        THEN Go(x.fs, [r EXCEPT !.changed = TRUE], "mkdir_attrs")
        ELSE Fail(x.fs, r, x.err)

mkdir_segment(f, r, io) ==
    LET x == os_mkdir(f, curpath(r), io)
    IN  IF x.err = "ok" THEN Go(x.fs, [r EXCEPT !.changed = TRUE], "mkdir_attrs")
        ELSE IF x.err = "EEXIST" /\ isdir(f, curpath(r)) THEN Go(f, r, "mkdir_attrs")
        ELSE Fail(x.fs, r, x.err)

\* mutant: a created segment is left with the attributes mkdir gave it
mkdir_attrs_skip(f, r, io) == NextSegment(f, r)

mkdir_attrs(f, r, io) ==
    LET a == set_fs_attributes_if_different(f, curpath(r), r.params.owner, r.changed, FALSE, io)
        n == Noted(r, {curpath(r)})
    IN  IF a.err # "ok" THEN Fail(a.fs, n, a.err)
        ELSE NextSegment(a.fs, [n EXCEPT !.changed = a.changed])

dir_attrs(f, r, io) ==
    LET a == set_fs_attributes_if_different(f, r.file_args, r.params.owner, r.changed,
                                            r.params.check, io)
        n == Noted(r, {r.file_args})
    IN  IF a.err # "ok" THEN Fail(a.fs, n, a.err)
        ELSE IF r.params.recurse THEN Go(a.fs, [n EXCEPT !.changed = a.changed], "recurse")
        ELSE Exit(a.fs, n, a.changed)

dir_recurse(f, r, io) ==
    LET a == recursive_set_attributes(f, r.file_args, r.params.follow, r.params.owner,
                                      r.params.check, io)
        n == Noted([r EXCEPT !.log = a.log], {a.log[i].path : i \in 1..Len(a.log)})
    IN  IF a.err # "ok" THEN Fail(a.fs, n, a.err)
        ELSE Exit(a.fs, n, r.changed \/ a.changed)

(***************************************************************************)
(* ensure_symlink and ensure_hardlink: the checks, then one step per       *)
(* system call of the replacement.                                         *)
(***************************************************************************)
\* the temporary sibling ".<pid>.<time>.tmp" of the path
b_tmppath(r) == Append(dirname(r.path), "t")
relpath(f, path) == IF ~islink(f, path) /\ isdir(f, path) THEN path ELSE dirname(path)
Replace(f, r, rm, tmp, direct, attrs) ==
    IF r.changed /\ ~r.params.check
    THEN IF r.prev_state # "absent"
         THEN IF r.prev_state = "directory" THEN Go(f, r, rm) ELSE Go(f, r, tmp)
         ELSE Go(f, r, direct)
    ELSE Go(f, r, attrs)
\* mutant: the except clause removes the name at the destination
Cleanup_destination(f, r) ==
    IF lexists(f, r.path)
    THEN Fail(os_unlink(f, r.path, FALSE).fs, r, r.err)
    ELSE Fail(f, r, r.err)

\* the except clause of the replacement: remove the temporary name, fail
Cleanup(f, r) ==
    IF exists(f, b_tmppath(r))
    THEN Fail(os_unlink(f, b_tmppath(r), FALSE).fs, r, r.err)
    ELSE Fail(f, r, r.err)
Raise(f, r, e, pc) == Go(f, [r EXCEPT !.err = e], pc)

\* mutant: the link at the path is never compared with src
symlink_differs_always(f, r, src) == TRUE

\* changed, as ensure_symlink computes it: a link is compared with src by
\* the text it stores
symlink_differs(f, r, src) ==
    IF r.prev_state = "link" THEN readlink(f, r.path) # src ELSE TRUE

\* mutant: a file or hard link is replaced without force
ensure_symlink_no_force(f, r, io) ==
    LET file_args == load_file_common_arguments(f, r.path, r.params.follow)
        src == IF r.src = None /\ r.params.follow THEN realpath(f, r.path) ELSE r.src
        absrc == join(relpath(f, r.path), src)
        changed == symlink_differs(f, r, src)
        r1 == [r EXCEPT !.src = src, !.file_args = file_args, !.changed = changed]
    IN  IF src = None THEN Fail(f, r, "TypeError")
        ELSE IF ~r.params.force /\ ~exists(f, absrc) THEN Fail(f, r1, "src file does not exist")
        ELSE IF r.prev_state = "directory" /\ ~r.params.force THEN Fail(f, r1, "conflict")
        ELSE IF r.prev_state = "directory" /\ listdir(f, r.path) # {}
             THEN Fail(f, r1, "not empty")
        ELSE Replace(f, r1, "ln_rmdir", "ln_tmp", "ln_direct", "ln_attrs")

\* mutant: the source is never required to exist
ensure_symlink_any_src(f, r, io) ==
    LET file_args == load_file_common_arguments(f, r.path, r.params.follow)
        src == IF r.src = None /\ r.params.follow THEN realpath(f, r.path) ELSE r.src
        changed == symlink_differs(f, r, src)
        r1 == [r EXCEPT !.src = src, !.file_args = file_args, !.changed = changed]
    IN  IF src = None THEN Fail(f, r, "TypeError")
        ELSE IF r.prev_state = "directory" /\ ~r.params.force THEN Fail(f, r1, "conflict")
        ELSE IF r.prev_state = "directory" /\ listdir(f, r.path) # {}
             THEN Fail(f, r1, "not empty")
        ELSE IF r.prev_state \in {"file", "hard"} /\ ~r.params.force THEN Fail(f, r1, "conflict")
        ELSE Replace(f, r1, "ln_rmdir", "ln_tmp", "ln_direct", "ln_attrs")

ensure_symlink(f, r, io) ==
    LET file_args == load_file_common_arguments(f, r.path, r.params.follow)
        src == IF r.src = None /\ r.params.follow THEN realpath(f, r.path) ELSE r.src
        absrc == join(relpath(f, r.path), src)
        changed == symlink_differs(f, r, src)
        r1 == [r EXCEPT !.src = src, !.file_args = file_args, !.changed = changed]
    IN  IF src = None THEN Fail(f, r, "TypeError")
        ELSE IF ~r.params.force /\ ~exists(f, absrc) THEN Fail(f, r1, "src file does not exist")
        ELSE IF r.prev_state = "directory" /\ ~r.params.force THEN Fail(f, r1, "conflict")
        ELSE IF r.prev_state = "directory" /\ listdir(f, r.path) # {}
             THEN Fail(f, r1, "not empty")
        ELSE IF r.prev_state \in {"file", "hard"} /\ ~r.params.force THEN Fail(f, r1, "conflict")
        ELSE Replace(f, r1, "ln_rmdir", "ln_tmp", "ln_direct", "ln_attrs")

\* mutant: the directory is removed with what it holds
ln_rmdir_rmtree(f, r, io) ==
    LET x == shutil_rmtree(f, r.path, io)
    IN  IF x.err # "ok" THEN Raise(x.fs, r, x.err, "ln_cleanup") ELSE Go(x.fs, r, "ln_tmp")

ln_rmdir(f, r, io) ==
    LET x == os_rmdir(f, r.path, io)
    IN  IF x.err # "ok" THEN Raise(x.fs, r, x.err, "ln_cleanup") ELSE Go(x.fs, r, "ln_tmp")

\* mutant: the old object is removed first and the link made in place
ln_tmp_unlink_first(f, r, io) ==
    LET x == os_unlink(f, r.path, io)
    IN  IF x.err # "ok" THEN Raise(x.fs, r, x.err, "ln_cleanup") ELSE Go(x.fs, r, "ln_direct")

ln_tmp(f, r, io) ==
    LET x == os_symlink(f, r.src, b_tmppath(r), io)
    IN  IF x.err # "ok" THEN Raise(x.fs, r, x.err, "ln_cleanup") ELSE Go(x.fs, r, "ln_rename")

ln_rename(f, r, io) ==
    LET x == os_rename(f, b_tmppath(r), r.path, io)
    IN  IF x.err # "ok" THEN Raise(x.fs, r, x.err, "ln_cleanup") ELSE Go(x.fs, r, "ln_attrs")

ln_cleanup(f, r, io) == Cleanup(f, r)

\* mutant: whatever is at the path is removed before the link is made
ln_direct_replacing(f, r, io) ==
    LET x == os_symlink(os_unlink(f, r.path, FALSE).fs, r.src, r.path, io)
    IN  IF x.err # "ok" THEN Fail(x.fs, r, x.err) ELSE Go(x.fs, r, "ln_attrs")

ln_direct(f, r, io) ==
    LET x == os_symlink(f, r.src, r.path, io)
    IN  IF x.err # "ok" THEN Fail(x.fs, r, x.err) ELSE Go(x.fs, r, "ln_attrs")

\* mutant: the link is made once more after the attributes were applied
ln_attrs_before_link(f, r, io) ==
    IF r.attrd # {} \/ r.params.check THEN Exit(f, r, r.changed)
    ELSE LET a == set_fs_attributes_if_different(f, r.file_args, r.params.owner, r.changed,
                                                 FALSE, io)
             n == Noted(r, {r.file_args})
         IN  IF a.err # "ok" THEN Fail(a.fs, n, a.err) ELSE Go(a.fs, n, "ln_tmp")

\* mutant: a failure of the attributes removes the link just made
ln_attrs_rollback(f, r, io) ==
    IF r.params.check /\ ~exists(f, r.path) THEN Exit(f, r, r.changed)
    ELSE IF r.params.follow /\ islink(f, r.path) /\ ~exists(f, r.file_args)
         THEN Exit(f, [r EXCEPT !.warn = TRUE], r.changed)
    ELSE LET a == set_fs_attributes_if_different(f, r.file_args, r.params.owner, r.changed,
                                                 r.params.check, io)
         IN  IF a.err # "ok" THEN Fail(os_unlink(a.fs, r.path, FALSE).fs, r, a.err)
             ELSE Exit(a.fs, r, a.changed)

ln_attrs(f, r, io) ==
    IF r.params.check /\ ~exists(f, r.path) THEN Exit(f, r, r.changed)
    ELSE IF r.params.follow /\ islink(f, r.path) /\ ~exists(f, r.file_args)
         THEN Exit(f, [r EXCEPT !.warn = TRUE], r.changed)
    ELSE LET a == set_fs_attributes_if_different(f, r.file_args, r.params.owner, r.changed,
                                                 r.params.check, io)
             n == Noted(r, {r.file_args})
         IN  IF a.err # "ok" THEN Fail(a.fs, n, a.err) ELSE Exit(a.fs, n, a.changed)

\* mutant: a directory that is its own src goes on to the attributes
same_directory_continue(f, r) == Go(f, [r EXCEPT !.changed = FALSE], "hl_attrs")

\* the path is a directory with the inode number of src: exit_json at once
same_directory_exit(f, r) == Exit(f, r, FALSE)

\* mutant: a relative src is taken as it is
ensure_hardlink_relative(f, r, io) ==
    LET file_args == load_file_common_arguments(f, r.path, r.params.follow)
        src == r.src
        absrc == join(relpath(f, r.path), src)
        same == stat(f, r.path).ino = stat(f, src).ino
        changed == IF r.prev_state = "link" THEN readlink(f, r.path) # src
                   ELSE IF r.prev_state = "hard" THEN ~same
                   ELSE TRUE
        r1 == [r EXCEPT !.file_args = file_args, !.changed = changed]
    IN  IF src = None THEN Fail(f, r, "src and dest are required")
        ELSE IF ~r.params.force /\ ~exists(f, absrc) THEN Fail(f, r1, "src file does not exist")
        ELSE IF r.prev_state = "hard" /\ ~exists(f, src) THEN Fail(f, r1, "ENOENT")
        ELSE IF r.prev_state \in {"hard", "file"} /\ changed /\ ~r.params.force
             THEN Fail(f, r1, "conflict")
        ELSE IF r.prev_state = "directory" /\ exists(f, r.path) /\ ~exists(f, src)
             THEN Fail(f, r1, "ENOENT")
        ELSE IF r.prev_state = "directory" /\ exists(f, r.path) /\ same
             THEN same_directory_exit(f, r1)
        ELSE IF r.prev_state = "directory" /\ exists(f, r.path) /\ ~r.params.force
             THEN Fail(f, r1, "conflict")
        ELSE Replace(f, r1, "hl_unlink", "hl_tmp", "hl_direct", "hl_attrs")

ensure_hardlink(f, r, io) ==
    LET file_args == load_file_common_arguments(f, r.path, r.params.follow)
        src == r.src
        absrc == join(relpath(f, r.path), src)
        same == stat(f, r.path).ino = stat(f, src).ino
        changed == IF r.prev_state = "link" THEN readlink(f, r.path) # src
                   ELSE IF r.prev_state = "hard" THEN ~same
                   ELSE TRUE
        r1 == [r EXCEPT !.file_args = file_args, !.changed = changed]
    IN  IF src = None THEN Fail(f, r, "src and dest are required")
        ELSE IF ~isabs(src) THEN Fail(f, r, "absolute paths are required")
        ELSE IF ~r.params.force /\ ~exists(f, absrc) THEN Fail(f, r1, "src file does not exist")
        ELSE IF r.prev_state = "hard" /\ ~exists(f, src) THEN Fail(f, r1, "ENOENT")
        ELSE IF r.prev_state \in {"hard", "file"} /\ changed /\ ~r.params.force
             THEN Fail(f, r1, "conflict")
        ELSE IF r.prev_state = "directory" /\ exists(f, r.path) /\ ~exists(f, src)
             THEN Fail(f, r1, "ENOENT")
        ELSE IF r.prev_state = "directory" /\ exists(f, r.path) /\ same
             THEN same_directory_exit(f, r1)
        ELSE IF r.prev_state = "directory" /\ exists(f, r.path) /\ ~r.params.force
             THEN Fail(f, r1, "conflict")
        ELSE Replace(f, r1, "hl_unlink", "hl_tmp", "hl_direct", "hl_attrs")

hl_unlink(f, r, io) ==
    LET x == IF exists(f, r.path) THEN os_unlink(f, r.path, io) ELSE Ret("ok", f)
    IN  IF x.err \notin {"ok", "ENOENT"} THEN Raise(x.fs, r, x.err, "hl_cleanup")
        ELSE Go(x.fs, r, "hl_tmp")

hl_tmp(f, r, io) ==
    LET x == os_link(f, r.src, b_tmppath(r), io)
    IN  IF x.err # "ok" THEN Raise(x.fs, r, x.err, "hl_cleanup") ELSE Go(x.fs, r, "hl_rename")

hl_rename(f, r, io) ==
    LET x == os_rename(f, b_tmppath(r), r.path, io)
    IN  IF x.err # "ok" THEN Raise(x.fs, r, x.err, "hl_cleanup") ELSE Go(x.fs, r, "hl_attrs")

hl_cleanup(f, r, io) == Cleanup(f, r)

hl_direct(f, r, io) ==
    LET x == os_link(f, r.src, r.path, io)
    IN  IF x.err # "ok" THEN Fail(x.fs, r, x.err) ELSE Go(x.fs, r, "hl_attrs")

hl_attrs(f, r, io) ==
    IF r.params.check /\ ~exists(f, r.path) THEN Exit(f, r, r.changed)
    ELSE LET a == set_fs_attributes_if_different(f, r.file_args, r.params.owner, r.changed,
                                                 r.params.check, io)
             n == Noted(r, {r.file_args})
         IN  IF a.err # "ok" THEN Fail(a.fs, n, a.err) ELSE Exit(a.fs, n, a.changed)

(***************************************************************************)
(* Inputs: the parameters of an invocation and the filesystems it starts   *)
(* from.  The managed path is /p; the working directory is /d; /m is a     *)
(* second device whose file /m/s has the inode number of the object at /p. *)
(***************************************************************************)
P == <<"/", "p">>
S == <<"/", "s">>
Deep == <<"/", "o", "s">>                \* a path whose parent may be missing too
SrcChoices == {None, S, <<"s">>, <<"/", "m", "s">>, <<"/", "p", "s">>}
Params(state, srcs, forces, follows, recurses) ==
    [state : {state}, path : {P}, src : srcs, force : forces, follow : follows,
     recurse : recurses, check : BOOLEAN, owner : {"unset", "alice"}]
Inputs ==
    Params("absent", {None}, {FALSE}, {TRUE}, {FALSE})
    \cup Params("touch", {None, S}, {FALSE}, BOOLEAN, {FALSE})
    \cup Params("file", {None, S}, BOOLEAN, BOOLEAN, {FALSE})
    \cup Params("directory", {None, S}, {FALSE}, BOOLEAN, BOOLEAN)
    \cup Params("directory", {None}, {TRUE}, BOOLEAN, {FALSE})
    \cup Params("link", SrcChoices, BOOLEAN, BOOLEAN, {FALSE})
    \cup Params("hard", SrcChoices, BOOLEAN, BOOLEAN, {FALSE})
    \cup Params("None", {None}, {FALSE}, {TRUE}, BOOLEAN)
    \cup [state : {"directory"}, path : {Deep}, src : {None}, force : {FALSE},
          follow : {TRUE}, recurse : {FALSE}, check : BOOLEAN, owner : {"unset", "alice"}]
    \cup [state : {"absent", "touch", "file", "link", "hard"}, path : {P}, src : {S},
          force : {FALSE}, follow : {TRUE}, recurse : {TRUE}, check : BOOLEAN,
          owner : {"unset"}]

Obj(k, n, txt) == [kind |-> k, ino |-> n, text |-> txt, owner |-> "root", mtime |-> 0]
PShapes == {"absent", "file", "hard_o", "hard_s", "dir", "dir_file", "dir_dir",
            "link_abs", "link_rel", "link_d",
            "dir_loop", "dir_links", "dir_rel", "dir_mutual"}
SShapes == {"absent", "file", "dir", "dir_file"}
Base ==
    (<<"/", "d">> :> Obj("dir", 1, <<>>)) @@ (<<"/", "d", "s">> :> Obj("file", 2, <<>>))
    @@ (<<"/", "m">> :> Obj("dir", 1, <<>>)) @@ (<<"/", "m", "s">> :> Obj("file", 4, <<>>))
SFiles(ss) ==
    IF ss = "file" THEN S :> Obj("file", 3, <<>>)
    ELSE IF ss = "dir" THEN S :> Obj("dir", 3, <<>>)
    ELSE IF ss = "dir_file"
         THEN (S :> Obj("dir", 3, <<>>)) @@ (<<"/", "s", "o">> :> Obj("file", 9, <<>>))
    ELSE <<>>
PFiles(ps) ==
    CASE ps = "file" -> P :> Obj("file", 4, <<>>)
      [] ps = "hard_o" -> (P :> Obj("file", 4, <<>>)) @@ (<<"/", "o">> :> Obj("file", 4, <<>>))
      [] ps = "hard_s" -> P :> Obj("file", 3, <<>>)
      [] ps = "dir" -> P :> Obj("dir", 4, <<>>)
      [] ps = "dir_file" -> (P :> Obj("dir", 4, <<>>)) @@ (<<"/", "p", "s">> :> Obj("file", 5, <<>>))
      [] ps = "dir_dir" -> (P :> Obj("dir", 4, <<>>)) @@ (<<"/", "p", "s">> :> Obj("dir", 5, <<>>))
      [] ps = "link_abs" -> P :> Obj("link", 4, S)
      [] ps = "link_rel" -> P :> Obj("link", 4, <<"s">>)
      [] ps = "link_d" -> P :> Obj("link", 4, <<"/", "d", "s">>)
      [] ps = "dir_loop" -> (P :> Obj("dir", 4, <<>>)) @@ (<<"/", "p", "s">> :> Obj("link", 5, P))
      [] ps = "dir_links" -> (P :> Obj("dir", 4, <<>>)) @@ (<<"/", "p", "s">> :> Obj("link", 5, S))
                             @@ (<<"/", "p", "o">> :> Obj("link", 6, S))
      [] ps = "dir_rel" -> (P :> Obj("dir", 4, <<>>)) @@ (<<"/", "p", "s">> :> Obj("file", 5, <<>>))
                           @@ (<<"/", "p", "o">> :> Obj("link", 6, <<"s">>))
      [] ps = "dir_mutual" -> (P :> Obj("dir", 4, <<>>)) @@ (<<"/", "p", "s">> :> Obj("link", 5, <<"/", "o">>))
                              @@ (<<"/", "o">> :> Obj("dir", 6, <<>>))
                              @@ (<<"/", "o", "s">> :> Obj("link", 7, P))
      [] OTHER -> <<>>
InitFS(ps, ss) == Base @@ SFiles(ss) @@ PFiles(ps)

Idle == [pc |-> "idle", params |-> CHOOSE x \in Inputs : TRUE, state |-> "None",
         path |-> P, prev_state |-> "absent", src |-> None, file_args |-> P,
         changed |-> FALSE, i |-> 0, warn |-> FALSE, err |-> "ok", rerun |-> FALSE,
         now |-> 0, log |-> <<>>, raced |-> FALSE, attrd |-> {}]

Init ==
    /\ \E ps \in PShapes, ss \in SShapes :
          /\ ps = "hard_s" => ss = "file"
          /\ fs = InitFS(ps, ss)
    /\ fs0 = fs
    /\ run = Idle
    /\ nruns = 0

(***************************************************************************)
(* Actions.  Start is main() called with fresh parameters, Rerun is main() *)
(* called again with the parameters of the finished invocation; every      *)
(* other action is one step of a handler, with the environment choosing    *)
(* whether its system call fails.                                          *)
(***************************************************************************)
Start ==
    /\ run.pc = "idle"
    /\ \E params \in Inputs : run' = [main(fs, params, FALSE) EXCEPT !.now = nruns + 1]
    /\ nruns' = nruns + 1
    /\ fs0' = fs
    /\ fs' = fs

Rerun ==
    /\ run.pc \in {"done", "failed"}
    /\ nruns < MaxRuns
    /\ run' = [main(fs, run.params, run.pc = "done") EXCEPT !.now = nruns + 1]
    /\ nruns' = nruns + 1
    /\ fs0' = fs
    /\ fs' = fs

\* one step: the environment chooses whether the step's system call fails
Do(Op(_, _, _)) ==
    \E io \in BOOLEAN : \E n \in {Op(fs, run, io)} : fs' = n.fs /\ run' = n.run

EnsureAbsent ==
    /\ run.pc = "absent"
    /\ Do(ensure_absent)
    /\ UNCHANGED <<fs0, nruns>>

ExecuteTouch ==
    /\ run.pc = "touch"
    /\ Do(execute_touch)
    /\ UNCHANGED <<fs0, nruns>>

TouchAttrs ==
    /\ run.pc = "touch_attrs"
    /\ Do(touch_attrs)
    /\ UNCHANGED <<fs0, nruns>>

EnsureFileAttributes ==
    /\ run.pc = "file"
    /\ Do(ensure_file_attributes)
    /\ UNCHANGED <<fs0, nruns>>

EnsureDirectory ==
    /\ run.pc = "directory"
    /\ Do(ensure_directory)
    /\ UNCHANGED <<fs0, nruns>>

MkdirCheck ==
    /\ run.pc = "mkdir_check"
    /\ Do(mkdir_check)
    /\ UNCHANGED <<fs0, nruns>>

MkdirSegment ==
    /\ run.pc = "mkdir"
    /\ Do(mkdir_segment)
    /\ UNCHANGED <<fs0, nruns>>

\* another process creates the segment, as a directory or as a file, after
\* ensure_directory found it missing and before its os.mkdir
OtherProcessCreates ==
    /\ run.pc = "mkdir" /\ ~run.raced
    /\ \E x \in {os_mkdir(fs, curpath(run), FALSE), open_wb(fs, curpath(run), FALSE)} :
          x.err = "ok" /\ fs' = x.fs
    /\ run' = [run EXCEPT !.raced = TRUE]
    /\ UNCHANGED <<fs0, nruns>>

\* another process removes the object at the path after main classified it
\* and before ensure_absent removes it
OtherProcessRemoves ==
    /\ run.pc = "absent" /\ ~run.raced /\ ~run.params.check
    /\ \E x \in {os_unlink(fs, run.path, FALSE), shutil_rmtree(fs, run.path, FALSE)} :
          x.err = "ok" /\ fs' = x.fs
    /\ run' = [run EXCEPT !.raced = TRUE]
    /\ UNCHANGED <<fs0, nruns>>

\* another process puts an entry into the directory after ensure_symlink
\* listed it and before its os.rmdir
OtherProcessFills ==
    /\ run.pc = "ln_rmdir" /\ ~run.raced
    /\ \E x \in {open_wb(fs, join(run.path, <<"o">>), FALSE)} : x.err = "ok" /\ fs' = x.fs
    /\ run' = [run EXCEPT !.raced = TRUE]
    /\ UNCHANGED <<fs0, nruns>>

\* another process creates an object at the path after main classified it
\* as absent and before os.symlink or os.link makes the link there
OtherProcessTakes ==
    /\ run.pc \in {"ln_direct", "hl_direct"} /\ ~run.raced
    /\ \E x \in {os_mkdir(fs, run.path, FALSE), open_wb(fs, run.path, FALSE),
                  os_symlink(fs, <<"o">>, run.path, FALSE)} :
          x.err = "ok" /\ fs' = x.fs
    /\ run' = [run EXCEPT !.raced = TRUE]
    /\ UNCHANGED <<fs0, nruns>>

MkdirAttrs ==
    /\ run.pc = "mkdir_attrs"
    /\ Do(mkdir_attrs)
    /\ UNCHANGED <<fs0, nruns>>

DirAttrs ==
    /\ run.pc = "dir_attrs"
    /\ Do(dir_attrs)
    /\ UNCHANGED <<fs0, nruns>>

DirRecurse ==
    /\ run.pc = "recurse"
    /\ Do(dir_recurse)
    /\ UNCHANGED <<fs0, nruns>>

EnsureSymlink ==
    /\ run.pc = "link"
    /\ Do(ensure_symlink)
    /\ UNCHANGED <<fs0, nruns>>

LnRmdir ==
    /\ run.pc = "ln_rmdir"
    /\ Do(ln_rmdir)
    /\ UNCHANGED <<fs0, nruns>>

LnTmp ==
    /\ run.pc = "ln_tmp"
    /\ Do(ln_tmp)
    /\ UNCHANGED <<fs0, nruns>>

LnRename ==
    /\ run.pc = "ln_rename"
    /\ Do(ln_rename)
    /\ UNCHANGED <<fs0, nruns>>

LnCleanup ==
    /\ run.pc = "ln_cleanup"
    /\ Do(ln_cleanup)
    /\ UNCHANGED <<fs0, nruns>>

LnDirect ==
    /\ run.pc = "ln_direct"
    /\ Do(ln_direct)
    /\ UNCHANGED <<fs0, nruns>>

LnAttrs ==
    /\ run.pc = "ln_attrs"
    /\ Do(ln_attrs)
    /\ UNCHANGED <<fs0, nruns>>

EnsureHardlink ==
    /\ run.pc = "hard"
    /\ Do(ensure_hardlink)
    /\ UNCHANGED <<fs0, nruns>>

HlUnlink ==
    /\ run.pc = "hl_unlink"
    /\ Do(hl_unlink)
    /\ UNCHANGED <<fs0, nruns>>

HlTmp ==
    /\ run.pc = "hl_tmp"
    /\ Do(hl_tmp)
    /\ UNCHANGED <<fs0, nruns>>

HlRename ==
    /\ run.pc = "hl_rename"
    /\ Do(hl_rename)
    /\ UNCHANGED <<fs0, nruns>>

HlCleanup ==
    /\ run.pc = "hl_cleanup"
    /\ Do(hl_cleanup)
    /\ UNCHANGED <<fs0, nruns>>

HlDirect ==
    /\ run.pc = "hl_direct"
    /\ Do(hl_direct)
    /\ UNCHANGED <<fs0, nruns>>

HlAttrs ==
    /\ run.pc = "hl_attrs"
    /\ Do(hl_attrs)
    /\ UNCHANGED <<fs0, nruns>>

Next ==
    \/ Start \/ Rerun
    \/ EnsureAbsent \/ OtherProcessRemoves
    \/ ExecuteTouch \/ TouchAttrs
    \/ EnsureFileAttributes
    \/ EnsureDirectory \/ MkdirCheck \/ OtherProcessCreates \/ MkdirSegment \/ MkdirAttrs
    \/ DirAttrs \/ DirRecurse
    \/ OtherProcessFills \/ OtherProcessTakes
    \/ EnsureSymlink \/ LnRmdir \/ LnTmp \/ LnRename \/ LnCleanup \/ LnDirect \/ LnAttrs
    \/ EnsureHardlink \/ HlUnlink \/ HlTmp \/ HlRename \/ HlCleanup \/ HlDirect \/ HlAttrs

Spec == Init /\ [][Next]_vars

\* the invocation continued to its end with no failing system call
Step(f, r) ==
    CASE r.pc = "absent" -> ensure_absent(f, r, FALSE)
      [] r.pc = "touch" -> execute_touch(f, r, FALSE)
      [] r.pc = "touch_attrs" -> touch_attrs(f, r, FALSE)
      [] r.pc = "file" -> ensure_file_attributes(f, r, FALSE)
      [] r.pc = "directory" -> ensure_directory(f, r, FALSE)
      [] r.pc = "mkdir_check" -> mkdir_check(f, r, FALSE)
      [] r.pc = "mkdir" -> mkdir_segment(f, r, FALSE)
      [] r.pc = "mkdir_attrs" -> mkdir_attrs(f, r, FALSE)
      [] r.pc = "dir_attrs" -> dir_attrs(f, r, FALSE)
      [] r.pc = "recurse" -> dir_recurse(f, r, FALSE)
      [] r.pc = "link" -> ensure_symlink(f, r, FALSE)
      [] r.pc = "ln_rmdir" -> ln_rmdir(f, r, FALSE)
      [] r.pc = "ln_tmp" -> ln_tmp(f, r, FALSE)
      [] r.pc = "ln_rename" -> ln_rename(f, r, FALSE)
      [] r.pc = "ln_cleanup" -> ln_cleanup(f, r, FALSE)
      [] r.pc = "ln_direct" -> ln_direct(f, r, FALSE)
      [] r.pc = "ln_attrs" -> ln_attrs(f, r, FALSE)
      [] r.pc = "hard" -> ensure_hardlink(f, r, FALSE)
      [] r.pc = "hl_unlink" -> hl_unlink(f, r, FALSE)
      [] r.pc = "hl_tmp" -> hl_tmp(f, r, FALSE)
      [] r.pc = "hl_rename" -> hl_rename(f, r, FALSE)
      [] r.pc = "hl_cleanup" -> hl_cleanup(f, r, FALSE)
      [] r.pc = "hl_direct" -> hl_direct(f, r, FALSE)
      [] r.pc = "hl_attrs" -> hl_attrs(f, r, FALSE)
      [] OTHER -> [fs |-> f, run |-> r]

RECURSIVE RunToEnd(_, _)
RunToEnd(f, r) ==
    IF r.pc \in {"done", "failed", "idle"} THEN [fs |-> f, run |-> r]
    ELSE LET n == Step(f, r) IN RunToEnd(n.fs, n.run)

TypeOK ==
    /\ run.pc \in {"idle", "done", "failed", "absent", "touch", "touch_attrs", "file",
                   "directory", "mkdir_check", "mkdir", "mkdir_attrs", "dir_attrs",
                   "recurse", "link", "ln_rmdir", "ln_tmp", "ln_rename", "ln_cleanup",
                   "ln_direct", "ln_attrs", "hard", "hl_unlink", "hl_tmp", "hl_rename",
                   "hl_cleanup", "hl_direct", "hl_attrs"}
    /\ DOMAIN fs \subseteq Paths
    /\ \A q \in DOMAIN fs : fs[q].kind \in {"file", "dir", "link"}
    /\ \A q \in DOMAIN fs : Get(fs, dirname(q)).kind = "dir"

(***************************************************************************)
(* Properties.                                                             *)
(***************************************************************************)
Ended == run.pc \in {"done", "failed"}
Real == run.pc # "idle" /\ ~run.params.check

\* C1: in check mode no handler changes the filesystem: at every point of
\* a check-mode invocation the filesystem is the one the invocation
\* started from, so get_state of the path is unchanged too.
C1_CheckModeNoMutation ==
    (run.pc # "idle" /\ run.params.check)
        => fs = fs0 /\ get_state(fs, run.params.path) = get_state(fs0, run.params.path)

\* a check-mode invocation that reported a change it did not make
C1_Witness ==
    /\ run.pc = "done" /\ run.params.check /\ run.changed
    /\ run.state = "link" /\ run.prev_state = "file"

\* the invocation with the same parameters in check mode, run to its end
\* from the filesystem the current invocation started from
CheckRun == RunToEnd(fs0, main(fs0, [run.params EXCEPT !.check = TRUE], FALSE)).run
\* no system call of the current invocation was made to fail by the
\* environment and no other process changed the filesystem meanwhile
NoFault == run.err # "EACCES" /\ ~run.raced

\* C2: a check-mode run and a real run from the same filesystem give the
\* same result: the same changed value, and a real run that fails is not
\* reported as a success by the check-mode run.
C2_CheckEqualsReal ==
    (Ended /\ Real /\ NoFault)
        => /\ run.pc = "failed" => CheckRun.pc = "failed"
           /\ run.pc = "done" => CheckRun.pc = "done" /\ CheckRun.changed = run.changed

\* C3: idempotence.  For desired state file, directory, link or hard, the
\* same parameters applied again right after a successful real run change
\* nothing: the second run never mutates the filesystem and ends with
\* changed=false.
C3_Idempotent ==
    (Real /\ run.rerun /\ ~run.raced /\ run.params.state \in {"file", "directory", "link", "hard"})
        => /\ fs = fs0
           /\ Ended => run.pc = "done" /\ ~run.changed

\* what an observer's lstat of a name tells: the kind of the object, its
\* inode and, for a link, the text it stores
Seen(f, p) == LET o == lstat(f, p) IN [kind |-> o.kind, ino |-> o.ino, text |-> o.text]
\* a and b, links followed, are one object: same device, same inode
SameIdentity(f, a, b) ==
    /\ exists(f, a) /\ exists(f, b)
    /\ DevOf(Resolve(f, a, TRUE).path) = DevOf(Resolve(f, b, TRUE).path)
    /\ stat(f, a).ino = stat(f, b).ino
\* the name p itself (a link not followed) is a hard link of the object src
IsHardLinkOf(f, p, src) ==
    /\ lexists(f, p) /\ ~islink(f, p) /\ exists(f, src)
    /\ DevOf(Resolve(f, p, FALSE).path) = DevOf(Resolve(f, src, TRUE).path)
    /\ lstat(f, p).ino = stat(f, src).ino

\* a real run of state=link or state=hard decided to replace the file,
\* hard link or symlink at the path and is past that decision
Replacing ==
    /\ Real /\ run.state \in {"link", "hard"} /\ run.changed
    /\ run.prev_state \in {"file", "hard", "link"}
    /\ run.pc \notin {"idle", "link", "hard"}
BeforeRename ==
    run.pc \in {"ln_tmp", "ln_rename", "ln_cleanup", "hl_tmp", "hl_rename", "hl_cleanup"}
IsNewLink ==
    IF run.state = "link" THEN islink(fs, run.path) /\ readlink(fs, run.path) = run.src
    ELSE IsHardLinkOf(fs, run.path, run.src)

\* C4: atomic replace.  While ensure_symlink or ensure_hardlink replaces a
\* file, hard link or symlink, the path is never absent: at every step an
\* observer sees the old object or the new link, and until the rename of
\* the temporary name has been done the path still holds the old object.
C4_AtomicReplace ==
    Replacing
        => /\ get_state(fs, run.path) # "absent"
           /\ Seen(fs, run.path) = Seen(fs0, run.path) \/ IsNewLink
           /\ BeforeRename => Seen(fs, run.path) = Seen(fs0, run.path)

\* the rename has put the new symlink where a regular file was
C4_Witness ==
    /\ Replacing /\ run.pc = "ln_attrs" /\ run.prev_state = "file"
    /\ islink(fs, run.path) /\ get_state(fs0, run.path) = "file"
    /\ ~lexists(fs, b_tmppath(run))

\* C5: terminal state.  A real run that succeeds with state absent,
\* directory, link or hard leaves the path absent, a directory, a symlink
\* whose text is src, or a hard link of src.
C5_TerminalState ==
    (run.pc = "done" /\ Real)
        => /\ run.state = "absent" => get_state(fs, run.path) = "absent"
           /\ run.state = "directory" => get_state(fs, run.path) = "directory"
           /\ run.state = "link" => islink(fs, run.path) /\ readlink(fs, run.path) = run.src
           /\ run.state = "hard" => IsHardLinkOf(fs, run.path, run.src)

\* C6: temp cleanup.  When a run of state=link or state=hard fails, the
\* temporary sibling name of the replacement does not exist any more.
C6_TempCleanup ==
    (run.pc = "failed" /\ Real /\ run.state \in {"link", "hard"})
        => ~lexists(fs, b_tmppath(run))

\* a step that applies attributes after the handler changed something
AttrStep ==
    /\ Real /\ run.changed
    /\ run.pc \in {"touch_attrs", "mkdir_attrs", "dir_attrs", "recurse", "ln_attrs", "hl_attrs"}
    /\ run'.pc = "failed"
TouchCreated == run.pc = "touch_attrs" /\ run.prev_state = "absent"

\* C7 as claimed: when the attributes fail after the handler made its
\* transition, the failing step leaves the object at the path as it was,
\* for every handler, touch on an absent path included.
C7_NoRollback ==
    [][AttrStep => Seen(fs', run.path) = Seen(fs, run.path)]_vars

\* C7, amended: when the attributes fail after the handler made its
\* transition, the object at the path stays as the transition left it,
\* except for touch on an absent path: the file touch created is removed.
C7_NoRollbackExceptTouch ==
    [][AttrStep => IF TouchCreated THEN ~lexists(fs', run.path)
                   ELSE Seen(fs', run.path) = Seen(fs, run.path)]_vars

\* the attributes failed after a file was replaced by a symlink, which stays
C7_Witness ==
    /\ run.pc = "failed" /\ run.err = "EACCES" /\ Real
    /\ run.state = "link" /\ run.prev_state = "file" /\ run.changed
    /\ islink(fs, run.path) /\ get_state(fs0, run.path) = "file"

\* where a link text or a src given for the link at the path leads to
LinkDest(f, path, text) == realpath(f, join(dirname(path), text))
\* ensure_symlink has run in real mode on a path that was a symlink
OnLink ==
    /\ Real /\ run.state = "link" /\ run.prev_state = "link" /\ run.src # None
    /\ run.pc \notin {"idle", "link"}
\* the link is the one the run found, and the run made no temporary name
LinkUntouched ==
    /\ Seen(fs, run.path) = Seen(fs0, run.path)
    /\ Seen(fs, b_tmppath(run)) = Seen(fs0, b_tmppath(run))
    /\ run.pc \in {"ln_attrs", "done", "failed"}

\* C8 as claimed: a symlink that leads to the same resolved target as src,
\* however the two are spelled, is not replaced: no temporary link, no
\* rename, only the attributes.
C8_SameTargetNoMutation ==
    (OnLink /\ LinkDest(fs0, run.path, readlink(fs0, run.path)) = LinkDest(fs0, run.path, run.src))
        => LinkUntouched

\* C8, amended: a symlink whose stored text is src, component for
\* component, is not replaced: no temporary link, no rename, only the
\* attributes.
C8_SameTextNoMutation ==
    (OnLink /\ readlink(fs0, run.path) = run.src) => LinkUntouched

\* the link already had the text asked for and the run went on to the owner
C8_Witness ==
    /\ OnLink /\ readlink(fs0, run.path) = run.src /\ run.params.src # None
    /\ run.pc = "done" /\ run.params.owner = "alice" /\ run.changed
    /\ Seen(fs, run.path) = Seen(fs0, run.path)

\* C9: ensure_hardlink takes the object at the path and src for the same
\* link (changed stays false for a hard link) only when device and inode
\* are both equal.
C9_IdentityIsDeviceAndInode ==
    (run.state = "hard" /\ run.prev_state = "hard" /\ run.pc = "hl_attrs" /\ ~run.changed)
        => SameIdentity(fs, run.path, run.src)

\* the path was a directory and is the object src names
DirectoryIsSrc ==
    /\ run.state = "hard" /\ run.prev_state = "directory"
    /\ run.pc \notin {"idle", "hard"}
    /\ SameIdentity(fs0, run.path, run.src)

\* C10: when the path is a directory whose identity is that of src,
\* ensure_hardlink ends at once with changed=false: nothing is replaced
\* and no attribute is applied, in check mode or not, with force or not.
C10_DirectoryShortCircuit ==
    DirectoryIsSrc => run.pc = "done" /\ ~run.changed /\ fs = fs0

\* a real run with force and an owner the directory does not have
C10_Witness ==
    /\ DirectoryIsSrc /\ run.pc = "done" /\ Real /\ run.params.force
    /\ run.params.owner = "alice" /\ stat(fs, run.path).owner # "alice"

\* a run of state=directory with recurse that went through the recursion
Recursed == run.state = "directory" /\ run.params.recurse /\ run.pc \in {"done", "failed"}

\* C11: with follow, recursive_set_attributes comes to its end on every
\* tree, also when a link leads to an ancestor or two links lead to each
\* other's directories: the recursion through links never runs until the
\* interpreter's stack is exhausted.
C11_RecursionTerminates ==
    (Recursed /\ run.params.follow) => run.err # "RecursionError"

\* the entries recursive_set_attributes has to reach from the directory c:
\* all names below c and, with follow, the existing targets of the links
\* among them and all names below a target that is a directory
RECURSIVE Closure(_, _, _)
Closure(f, X, n) ==
    LET ts == {LinkTarget(f, e) : e \in {x \in X : islink(f, x) /\ exists(f, LinkTarget(f, x))}}
        Y == X \cup ts \cup {q \in DOMAIN f : \E t \in ts : isdir(f, t) /\ Under(Resolve(f, t, TRUE).path, q)}
    IN  IF Y = X \/ n = 0 THEN X ELSE Closure(f, Y, n - 1)
Below(f, c) == {q \in DOMAIN f : Under(c, q)}
Reach(f, c, follow) ==
    IF follow THEN Closure(f, Below(f, c), Cardinality(DOMAIN f)) ELSE Below(f, c)
Logged == {run.log[i].path : i \in 1..Len(run.log)}

\* C12: a successful recursion patches every entry reachable from the
\* root exactly once: none is left out and none is patched twice.
C12_ExactlyOnce ==
    (Recursed /\ run.pc = "done")
        => /\ Reach(fs, run.path, run.params.follow) \subseteq Logged
           /\ \A i, j \in 1..Len(run.log) : run.log[i].path = run.log[j].path => i = j

\* C13: after a successful real run of state=directory with recurse and
\* follow, the root and everything reachable from it (entries, existing
\* link targets, entries of linked directories) has the owner asked for,
\* and changed tells whether any of them had to be changed.
C13_RecursiveCoverage ==
    (Recursed /\ run.pc = "done" /\ Real /\ run.params.follow /\ ~run.raced)
        => /\ run.params.owner # "unset" =>
                \A q \in {run.path} \cup Reach(fs, run.path, TRUE) :
                    lstat(fs, q).owner = run.params.owner
           /\ run.changed <=> fs # fs0

\* links, a linked directory outside the tree and its file all got the owner
C13_Witness ==
    /\ Recursed /\ run.pc = "done" /\ Real /\ run.params.follow /\ run.changed
    /\ run.params.owner = "alice" /\ islink(fs, <<"/", "p", "s">>)
    /\ lstat(fs, <<"/", "s", "o">>).owner = "alice" /\ lstat(fs0, <<"/", "s", "o">>).owner = "root"
    /\ lstat(fs, <<"/", "p", "s">>).owner = "alice" /\ lstat(fs, S).owner = "alice"

\* the calls made for the link met at position i of the log: the link,
\* then, when it is followed, what is inside its target, then the target
FollowedAt(i) ==
    LET e == run.log[i].path
        t == LinkTarget(fs, e)
    IN  IF run.params.follow /\ exists(fs, t)
        THEN \E j \in (i + 1)..Len(run.log) :
                /\ run.log[j] = Call(t, e)
                /\ ~isdir(fs, t) => j = i + 1
                /\ \A k \in (i + 1)..(j - 1) : Under(Resolve(fs, t, TRUE).path, run.log[k].path)
        ELSE \A j \in 1..Len(run.log) : run.log[j].of # e

\* C14: for every link met by recursive_set_attributes the link itself is
\* patched first; with follow and an existing target the contents of a
\* target directory come next and the target last; a link whose target is
\* missing gets nothing more than its own patch and the run does not fail.
LogInOrder ==
    /\ \A i \in 1..Len(run.log) :
          (run.log[i].of = <<>> /\ islink(fs, run.log[i].path)) => FollowedAt(i)
    /\ \A j \in 1..Len(run.log) :
          run.log[j].of # <<>> => \E i \in 1..(j - 1) : run.log[i] = Call(run.log[j].of, <<>>)
C14_LinkFirstThenTarget ==
    /\ [](Recursed /\ run.pc = "done" => LogInOrder)
    /\ [][run.pc = "recurse" /\ run'.pc = "failed"
            => run'.err \in {"EACCES", "RecursionError"}]_vars

\* a link to a directory with a file in it was followed
C14_Witness ==
    /\ Recursed /\ run.pc = "done" /\ run.params.follow
    /\ \E i \in 1..Len(run.log) :
          /\ run.log[i] = Call(<<"/", "p", "s">>, <<>>)
          /\ i + 2 <= Len(run.log)
          /\ run.log[i + 1] = Call(<<"/", "s", "o">>, <<>>)
          /\ run.log[i + 2] = Call(S, <<"/", "p", "s">>)

\* C15: ensure_absent reports changed exactly when the path classified as
\* something other than absent; on an absent path it does nothing; after a
\* successful real run the path classifies as absent and nothing of the
\* tree below it is left (a directory goes with its descendants, any other
\* object is unlinked and only that object goes).
C15_ToAbsent ==
    (run.state = "absent" /\ run.pc = "done")
        => /\ run.prev_state = get_state(fs0, run.path)
           /\ run.changed <=> run.prev_state # "absent"
           /\ run.prev_state = "absent" => fs = fs0
           /\ Real => /\ get_state(fs, run.path) = "absent"
                       /\ Below(fs, run.path) = {}
                       /\ \A q \in DOMAIN fs0 :
                             (q # run.path /\ ~Under(run.path, q)) => q \in DOMAIN fs /\ fs[q] = fs0[q]
C15_Witness ==
    /\ run.state = "absent" /\ run.pc = "done" /\ Real /\ run.changed
    /\ run.prev_state = "directory"
    /\ Below(fs0, run.path) # {}
    /\ ~lexists(fs, run.path)

\* the state of the path as the file handler is to see it: that of the
\* fully resolved target when the path is a link and follow is set
FileView ==
    LET st == get_state(fs, run.path) IN
    IF run.params.follow /\ st = "link"
    THEN IF exists(fs, run.path) THEN get_state(fs, Resolve(fs, run.path, TRUE).path)
         ELSE "absent"
    ELSE st

\* C16: ensure_file_attributes never creates: when the state it sees is
\* absent, directory or link its step fails as a conflict and leaves the
\* filesystem as it is; only on a file or a hard-linked file does it go on
\* to the attributes, and it succeeds only there; force plays no part.
C16_FileFailsFast ==
    [][run.pc = "file"
         => IF FileView \in {"file", "hard"}
            THEN run'.pc = "done" \/ (run'.pc = "failed" /\ run'.err = "EACCES")
            ELSE run'.pc = "failed" /\ run'.err = "conflict" /\ fs' = fs]_vars
C16_Witness ==
    /\ run.state = "file" /\ run.pc = "failed" /\ run.err = "conflict"
    /\ run.params.force /\ run.params.follow /\ ~run.params.check
    /\ get_state(fs0, run.params.path) = "link"
    /\ ~exists(fs0, run.params.path)
    /\ fs = fs0

\* the path the handler was called with, after the rewrite of main
CalledPath == main(fs0, run.params, FALSE).path
FileRun == run.state = "file" /\ run.pc \in {"done", "failed"}

\* C17: with state=file on a path that is a symlink: without follow the
\* run fails and changes nothing; with follow and a target that is a file
\* the run works on the fully resolved target: the link stays the object
\* it was, no name appears or disappears, the reported path is the
\* resolved one and after a real run the target has the requested owner.
\* Every successful run with state=file reports changed exactly when the
\* owner asked for differed from the owner the target had.
C17_FileFollow ==
    /\ (FileRun /\ get_state(fs0, CalledPath) = "link")
         => /\ ~run.params.follow => run.pc = "failed" /\ fs = fs0
            /\ (run.params.follow /\ stat(fs0, CalledPath).kind = "file" /\ run.err # "EACCES")
                 => run.pc = "done"
            /\ run.pc = "done"
                 => /\ lstat(fs, CalledPath) = lstat(fs0, CalledPath)
                    /\ DOMAIN fs = DOMAIN fs0
                    /\ run.path = Resolve(fs0, CalledPath, TRUE).path
                    /\ ~islink(fs0, run.path)
                    /\ (Real /\ run.params.owner # "unset")
                         => stat(fs, CalledPath).owner = run.params.owner
    /\ (FileRun /\ run.pc = "done")
         => (run.changed <=> /\ run.params.owner # "unset"
                             /\ stat(fs0, CalledPath).owner # run.params.owner)
C17_Witness ==
    /\ FileRun /\ run.pc = "done" /\ Real /\ run.changed
    /\ run.params.follow /\ run.params.owner = "alice"
    /\ islink(fs0, CalledPath) /\ islink(fs, CalledPath)
    /\ lstat(fs, CalledPath).owner = "root"
    /\ run.path # CalledPath
    /\ lstat(fs0, run.path).owner = "root" /\ lstat(fs, run.path).owner = "alice"

Prefixes(p) == {SubSeq(p, 1, n) : n \in 2..Len(p)}
\* a step of the invocation that creates the segment it is at
Creates == run.pc = "mkdir" /\ run'.pc # "mkdir" /\ fs' # fs

\* C18: creating a directory path that is absent: a segment is made only
\* when every prefix before it is a directory, the step makes that segment
\* and nothing else, the next step applies the attributes to it, and a
\* successful real run ends with every prefix a directory and changed.
C18_RootToLeaf ==
    /\ [][Creates
            => /\ \A q \in Prefixes(curpath(run)) \ {curpath(run)} : isdir(fs, q)
               /\ ~lexists(fs, curpath(run))
               /\ DOMAIN fs' = DOMAIN fs \cup {Resolve(fs, curpath(run), FALSE).path}
               /\ \A q \in DOMAIN fs : fs'[q] = fs[q]
               /\ lstat(fs', curpath(run)).kind = "dir"
               /\ run'.pc = "mkdir_attrs" /\ run'.changed
               /\ curpath(run') = curpath(run)]_vars
    /\ [][(run.pc = "mkdir_attrs" /\ run'.pc # "failed")
            => /\ run.params.owner # "unset"
                    => lstat(fs', curpath(run)).owner = run.params.owner
               /\ \A q \in DOMAIN fs' \ {Resolve(fs, curpath(run), FALSE).path} : fs'[q] = fs[q]
               /\ IF curpath(run) = run.path THEN run'.pc = "dir_attrs"
                  ELSE run'.pc = "mkdir_check" /\ Len(curpath(run')) = Len(curpath(run)) + 1]_vars
    /\ [](( /\ run.state = "directory" /\ run.pc = "done" /\ Real /\ ~run.raced
             /\ run.prev_state = "absent")
            => /\ \A q \in Prefixes(run.path) : isdir(fs, q)
               /\ run.changed)
C18_Witness ==
    /\ run.state = "directory" /\ run.pc = "done" /\ Real /\ ~run.raced
    /\ run.path = Deep /\ run.changed /\ run.params.owner = "alice"
    /\ ~lexists(fs0, <<"/", "o">>)
    /\ \A q \in Prefixes(Deep) : isdir(fs, q) /\ lstat(fs, q).owner = "alice"

\* the invocation resumes one that failed after it had created /o of /o/s
Resumed ==
    /\ run.state = "directory" /\ run.params.path = Deep /\ Real /\ ~run.raced
    /\ run.now >= 2 /\ ~run.rerun
    /\ isdir(fs0, <<"/", "o">>) /\ ~lexists(fs0, Deep)
\* every segment of the path is a directory with the requested owner
Converged ==
    \A q \in Prefixes(Deep) :
        /\ isdir(fs, q)
        /\ run.params.owner # "unset" => lstat(fs, q).owner = run.params.owner
\* one more invocation with the same parameters, no system call failing
Further == RunToEnd(fs, main(fs, run.params, TRUE))
ResumeConverges == (Resumed /\ run.pc = "done") => Converged
ResumeSettles ==
    (Resumed /\ run.pc = "done")
        => Further.run.pc = "done" /\ ~Further.run.changed /\ Further.fs = fs
ChangedOnlyIfActed ==
    (run.state = "directory" /\ run.pc = "done" /\ Real /\ ~run.raced /\ run.changed)
        => fs # fs0

\* C19: creating a directory path resumes: an invocation that follows one
\* interrupted after it created a proper prefix of the path ends with every
\* segment a directory with the requested attributes; an invocation makes
\* only the segments that are missing, reports changed only when it made a
\* segment or changed an attribute, and one more invocation on the result
\* changes nothing and reports changed=false.
C19_Resumable ==
    /\ [](ResumeConverges /\ ResumeSettles /\ ChangedOnlyIfActed)
    /\ [][Creates => ~lexists(fs, curpath(run))]_vars

\* the mkdir step of the invocation (the other process leaves pc alone)
MkdirStep == run.pc = "mkdir" /\ run'.pc # "mkdir"

\* C20: when the segment has appeared between the existence check and the
\* mkdir, the mkdir step goes on to the attributes of that segment without
\* setting changed and without touching the filesystem if the segment is a
\* directory, and fails with the mkdir error, touching nothing, if it is
\* anything else; a mkdir that fails for another reason fails the run; a
\* raced run fails with EEXIST only when a segment is not a directory.
C20_MkdirRace ==
    /\ [][(MkdirStep /\ lexists(fs, curpath(run)))
            => /\ run.raced /\ fs' = fs
               /\ IF isdir(fs, curpath(run))
                  THEN run'.pc = "mkdir_attrs" /\ run'.changed = run.changed
                  ELSE run'.pc = "failed" /\ run'.err = "EEXIST"]_vars
    /\ [][(MkdirStep /\ ~lexists(fs, curpath(run)))
            => \/ run'.pc = "mkdir_attrs" /\ isdir(fs', curpath(run)) /\ run'.changed
               \/ run'.pc = "failed" /\ run'.err # "ok" /\ fs' = fs]_vars
    /\ []((run.state = "directory" /\ run.raced /\ run.pc = "failed" /\ run.err # "EACCES")
            => run.err = "EEXIST" /\ \E q \in Prefixes(run.path) : lexists(fs, q) /\ ~isdir(fs, q))
C20_Witness ==
    /\ run.state = "directory" /\ run.pc = "done" /\ run.raced
    /\ run.prev_state = "absent" /\ ~lexists(fs0, run.path)
    /\ isdir(fs, run.path) /\ ~run.changed

\* C21: ensure_directory on a path that exists and, after resolving a link
\* when follow is set, is not a directory: the step fails as a conflict and
\* the filesystem is as it was, with force as without.
C21_DirectoryConflict ==
    /\ [][(run.pc = "directory" /\ FileView \notin {"absent", "directory"})
            => run'.pc = "failed" /\ run'.err = "conflict" /\ fs' = fs]_vars
    /\ []((run.state = "directory" /\ run.pc = "failed" /\ run.err = "conflict")
            => fs = fs0 /\ get_state(fs, run.path) \in {"file", "hard", "link"})
C21_Witness ==
    /\ run.state = "directory" /\ run.pc = "failed" /\ run.err = "conflict"
    /\ run.params.force /\ ~run.params.check
    /\ get_state(fs0, run.params.path) = "file"
    /\ fs = fs0

LinkRun == run.state = "link" /\ run.pc \in {"done", "failed"}
\* the text the link is to hold: src, or without src and with follow the
\* resolved path itself
SrcText ==
    IF run.params.src # None THEN run.params.src
    ELSE IF run.params.follow THEN realpath(fs0, CalledPath) ELSE None
\* what a link at the path holding that text resolves to
ResolvedSrc == join(dirname(CalledPath), SrcText)
SrcMissing == SrcText # None /\ ~exists(fs0, ResolvedSrc)
\* the temporary name of the invocation is new, as a name made of the
\* process id and the time is
TmpFree == ~lexists(fs0, b_tmppath(run))

\* C22: ensure_symlink without force and with a source that does not exist
\* fails and leaves the filesystem as it was, whatever is at the path; with
\* force the missing source is accepted: unless a directory with entries is
\* in the way, a real run with no failing call ends done with the path a
\* link holding src, which dangles.
C22_SymlinkSourceCheck ==
    /\ (LinkRun /\ ~run.params.force /\ SrcMissing) => run.pc = "failed" /\ fs = fs0
    /\ (LinkRun /\ run.params.force /\ SrcMissing /\ Real /\ NoFault /\ TmpFree
           /\ ~(get_state(fs0, CalledPath) = "directory" /\ Below(fs0, CalledPath) # {}))
         => /\ run.pc = "done"
            /\ islink(fs, CalledPath) /\ readlink(fs, CalledPath) = SrcText
            /\ ~exists(fs, CalledPath)
C22_Witness ==
    /\ LinkRun /\ ~run.params.force /\ SrcMissing /\ run.pc = "failed"
    /\ run.err = "src file does not exist"
    /\ islink(fs0, CalledPath) /\ readlink(fs0, CalledPath) = SrcText

InTheWay(k) == get_state(fs0, CalledPath) \in k
NotEmpty == InTheWay({"directory"}) /\ Below(fs0, CalledPath) # {}

\* C23: ensure_symlink on a path that is a file, a hard-linked file or a
\* directory: without force, and for a directory with entries also with
\* force, the run fails and the filesystem is as it was; with force, a
\* file, a hard-linked file or an empty directory is replaced: a real run
\* with no failing call ends done, changed, with the path a link holding
\* src.
C23_SymlinkCompatibility ==
    (LinkRun /\ InTheWay({"file", "hard", "directory"}))
        => /\ (~run.params.force \/ NotEmpty) => run.pc = "failed" /\ fs = fs0
           /\ (run.params.force /\ ~NotEmpty /\ Real /\ NoFault /\ TmpFree /\ SrcText # None)
                => /\ run.pc = "done" /\ run.changed
                   /\ islink(fs, CalledPath) /\ readlink(fs, CalledPath) = SrcText
C23_Witness ==
    /\ LinkRun /\ run.pc = "done" /\ run.changed /\ run.params.force /\ Real
    /\ InTheWay({"directory"}) /\ ~NotEmpty
    /\ islink(fs, CalledPath) /\ readlink(fs, CalledPath) = S

\* the text of the source as the handler at its first step takes it
SrcNow ==
    IF run.pc = "link" /\ run.src = None /\ run.params.follow THEN realpath(fs, run.path)
    ELSE run.src
\* the source resolved against the directory the path is in
BesideSrc == join(dirname(run.path), SrcNow)
\* the first step of ensure_symlink or ensure_hardlink with a usable src
\* and without force, where the existence of the source decides
SourceChecked ==
    /\ run.pc \in {"link", "hard"} /\ ~run.params.force /\ SrcNow # None
    /\ run.pc = "hard" => isabs(SrcNow)
SourceRefused == run'.pc = "failed" /\ run'.err = "src file does not exist"

\* C24: the source whose existence ensure_symlink and ensure_hardlink
\* check is src taken relative to the directory that holds the path,
\* whatever is at the path, a directory included: without force the step
\* refuses the source exactly when that path does not exist.
C24_SourceBesidePath ==
    [][SourceChecked => (SourceRefused <=> ~exists(fs, BesideSrc))]_vars
\* the same for a path that is not itself a directory
SourceBesideNonDirectory ==
    [][(SourceChecked /\ ~(~islink(fs, run.path) /\ isdir(fs, run.path)))
         => (SourceRefused <=> ~exists(fs, BesideSrc))]_vars

\* ensure_symlink has come to the attributes with the path a link whose
\* target does not exist, and follow is set
DanglingAtAttrs ==
    /\ run.pc = "ln_attrs" /\ run.params.follow
    /\ islink(fs, run.path) /\ ~exists(fs, run.path)
SkippedWithWarning ==
    /\ run'.pc = "done" /\ run'.warn
    /\ fs' = fs
    /\ run'.changed = run.changed

\* C25: when ensure_symlink comes to the attributes with the path a link
\* whose target does not exist and follow is set, no attribute is applied
\* to any object, the warning is given and the run ends done with changed
\* as the link transition left it.
C25_DanglingTargetWarns == [][DanglingAtAttrs => SkippedWithWarning]_vars
\* the same for real runs only
DanglingTargetWarnsReal == [][(DanglingAtAttrs /\ Real) => SkippedWithWarning]_vars
\* the same for a path that was not a link when the run began
DanglingNewLinkWarns ==
    [][(DanglingAtAttrs /\ Real /\ ~islink(fs0, run.path)) => SkippedWithWarning]_vars

HardRun == run.state = "hard" /\ run.pc \in {"done", "failed"}

HardOverDirectory ==
    /\ HardRun /\ Real /\ NoFault /\ TmpFree /\ run.params.force
    /\ run.params.src # None /\ isabs(run.params.src)
    /\ get_state(fs0, CalledPath) = "directory"
    /\ stat(fs0, run.params.src).kind = "file"
    /\ ~SameIdentity(fs0, CalledPath, run.params.src)

\* C27: ensure_hardlink with force on a path that is a directory other
\* than src removes the directory entry, makes the hard link under the
\* temporary name and renames it into place: the run ends done, changed,
\* with the path a hard link of src.
C27_HardOverDirectory ==
    HardOverDirectory
        => run.pc = "done" /\ run.changed /\ IsHardLinkOf(fs, CalledPath, run.params.src)
\* the same where the inode numbers differ as well
HardOverOtherInode ==
    (HardOverDirectory /\ stat(fs0, CalledPath).ino # stat(fs0, run.params.src).ino)
        => run.pc = "done"
\* what such a run does end in: the unlink of the directory fails
HardOverDirectoryFails ==
    (HardOverDirectory /\ stat(fs0, CalledPath).ino # stat(fs0, run.params.src).ino)
        => run.pc = "failed" /\ run.err = "EISDIR" /\ fs = fs0

TouchRun == run.state = "touch" /\ run.pc \in {"done", "failed"}
\* the name the path stands for, links in its directories resolved
Canon == Resolve(fs0, CalledPath, FALSE).path
\* the names other than p hold the objects they held, times apart for
\* the other names of the object at p
OthersKept(p) ==
    /\ DOMAIN fs \ {p} = DOMAIN fs0 \ {p}
    /\ \A q \in DOMAIN fs0 \ {p} :
          IF SameObj(fs0, q, p) THEN Seen(fs, q) = Seen(fs0, q) ELSE fs[q] = fs0[q]

\* C28: a successful touch reports changed, in check mode and on a
\* repeated run as well; a real one on an absent path leaves an empty file
\* there, and on a file, a directory or a hard-linked file leaves the
\* object what it was with its time set to the time of the run; no other
\* name is affected.
C28_Touch ==
    (TouchRun /\ run.pc = "done")
        => /\ run.changed
           /\ (Real /\ get_state(fs0, CalledPath) = "absent")
                => /\ lstat(fs, CalledPath).kind = "file"
                   /\ lstat(fs, CalledPath).text = <<>>
                   /\ st_nlink(fs, CalledPath) = 1
                   /\ OthersKept(Canon)
           /\ (Real /\ get_state(fs0, CalledPath) \in {"file", "directory", "hard"})
                => /\ Seen(fs, CalledPath) = Seen(fs0, CalledPath)
                   /\ lstat(fs, CalledPath).mtime = run.now
                   /\ OthersKept(Canon)
C28_Witness ==
    /\ TouchRun /\ run.pc = "done" /\ run.changed /\ Real
    /\ run.rerun /\ run.now = 2
    /\ get_state(fs0, CalledPath) = "file"
    /\ lstat(fs0, CalledPath).mtime = 1 /\ lstat(fs, CalledPath).mtime = 2

TouchOnLink == TouchRun /\ get_state(fs0, CalledPath) = "link" /\ ~run.params.follow
Refused == run.pc = "failed" /\ run.err = "AnsibleModuleError" /\ fs = fs0

\* C29: touch without follow on a path that is a symlink fails with the
\* error of execute_touch and leaves every object, the link, its target
\* and all times included, as it was.
C29_TouchLinkNoFollow == TouchOnLink => Refused
\* the same for real runs only
TouchLinkNoFollowReal == (TouchOnLink /\ Real) => Refused

\* a successful real touch with follow on a path that was a symlink
TouchFollowed ==
    /\ TouchRun /\ run.pc = "done" /\ Real /\ run.params.follow
    /\ islink(fs0, CalledPath)
\* the object the link resolved to, a relative text taken from the
\* directory of the link
TouchTarget == Resolve(fs0, CalledPath, TRUE).path
OnlyTargetTouched ==
    /\ TouchTarget \in DOMAIN fs /\ fs[TouchTarget].mtime = run.now
    /\ \A q \in DOMAIN fs0 :
          ~SameObj(fs0, q, TouchTarget) => q \in DOMAIN fs /\ fs[q].mtime = fs0[q].mtime

\* C30: touch with follow on a symlink sets the time of the object the
\* link resolves to, a relative link text resolved against the directory
\* of the link, and the time of no other object, the link included.
C30_TouchFollowsLink == TouchFollowed => OnlyTargetTouched
\* the same for a link holding an absolute path
TouchFollowsAbsoluteLink ==
    (TouchFollowed /\ isabs(readlink(fs0, CalledPath))) => OnlyTargetTouched

\* a step of the handler itself, not of another process nor a new run
HandlerStep ==
    /\ run.pc \notin {"idle", "done", "failed"}
    /\ run'.now = run.now /\ run'.raced = run.raced
\* the object at a name apart from its attributes
Apart(f, q) == [lstat(f, q) EXCEPT !.owner = "any"]

\* C31: once a run has applied attributes to a path, no later step of
\* that run creates or replaces the object at that path or sets its times:
\* the object there stays the one it was, or is gone.
C31_AttributesAfterTransition ==
    [][HandlerStep
         => \A q \in run.attrd :
               Apart(fs', q) = Apart(fs, q) \/ lstat(fs', q).kind = "none"]_vars
C31_Witness ==
    /\ run.state = "directory" /\ run.pc = "done" /\ Real /\ ~run.raced
    /\ run.attrd = Prefixes(Deep)
    /\ \A q \in Prefixes(Deep) : ~lexists(fs0, q) /\ isdir(fs, q)

\* the desired state in effect: the one given, else the current state of the
\* path, else directory when recurse is set and file when it is not
Effective ==
    IF run.params.state # "None" THEN run.params.state
    ELSE IF lexists(fs0, run.params.path) THEN get_state(fs0, run.params.path)
    ELSE IF run.params.recurse THEN "directory" ELSE "file"

\* C32: an invocation with recurse set whose effective desired state is not
\* directory has failed with a parameter error from its start, with no
\* handler step taken, no attribute call made and the filesystem as it was;
\* an invocation that got past parameter handling with recurse set has
\* state directory.
C32_RecurseNeedsDirectory ==
    run.pc # "idle" /\ run.params.recurse
        => IF Effective # "directory"
           THEN /\ run.pc = "failed" /\ run.err = "ParameterError"
                /\ fs = fs0 /\ run.attrd = {} /\ run.log = <<>> /\ ~run.changed
           ELSE run.err # "ParameterError" /\ run.state = "directory"
C32_Witness ==
    /\ run.params.recurse /\ run.params.state = "link" /\ islink(fs0, P)
    /\ run.pc = "failed" /\ run.err = "ParameterError"

\* the names of the object a path names, the last component not followed
NamesOf(f, q) ==
    LET n == Resolve(f, q, FALSE).path
    IN  {x \in DOMAIN f : DevOf(x) = DevOf(n) /\ f[x].ino = lstat(f, q).ino}
\* the state of a path in the words of the classification
Classified(f, q) ==
    LET k == lstat(f, q).kind
    IN  IF k = "none" THEN "absent"
        ELSE IF k = "link" THEN "link"
        ELSE IF k = "dir" THEN "directory"
        ELSE IF Cardinality(NamesOf(f, q)) > 1 THEN "hard" ELSE "file"

\* C33: for every path of every filesystem the module meets, get_state gives
\* one of the five states: absent exactly when nothing is at the path (the
\* last component not followed), link for every symbolic link whatever it
\* points to, directory for a directory, hard for another object with more
\* than one name and file otherwise; an invocation starts from that state.
C33_GetState ==
    /\ \A q \in Paths :
          /\ get_state(fs, q) \in {"absent", "link", "directory", "hard", "file"}
          /\ get_state(fs, q) = Classified(fs, q)
    /\ run.pc # "idle" => run.prev_state = Classified(fs0, run.path)
C33_Witness ==
    /\ \E q \in Paths : islink(fs, q) /\ ~exists(fs, q) /\ get_state(fs, q) = "link"
    /\ \E q \in Paths : ~islink(fs, q) /\ isdir(fs, q) /\ get_state(fs, q) = "directory"
    /\ \E q \in Paths : st_nlink(fs, q) > 1 /\ get_state(fs, q) = "hard"
    /\ \E q \in Paths : st_nlink(fs, q) = 1 /\ get_state(fs, q) = "file"
    /\ \E q \in Paths : ~lexists(fs, q) /\ get_state(fs, q) = "absent"
    /\ run.pc # "idle" /\ run.prev_state = "hard"

AbsentRun == run.state = "absent" /\ Real /\ Ended /\ run.prev_state # "absent"

\* C34: a real run to absent whose object, not a directory, was removed by
\* another process before the unlink ends in success with changed set and
\* the path absent; a run whose directory was removed by another process
\* fails, as the recursive delete then does; and no run ends in success
\* unless the path is absent, so that no other error of the unlink or of the
\* recursive delete is passed over: such a run fails with the filesystem as
\* the error left it.
C34_AbsentRace ==
    AbsentRun
        => /\ run.raced /\ run.prev_state # "directory"
                => run.pc = "done" /\ run.changed /\ ~lexists(fs, run.path)
           /\ run.raced /\ run.prev_state = "directory"
                => run.pc = "failed" /\ run.err = "ENOENT"
           /\ run.pc = "done" => run.changed /\ ~lexists(fs, run.path)
           /\ run.pc = "failed" => run.err # "ok" /\ (run.raced \/ fs = fs0)
C34_Witness ==
    /\ AbsentRun /\ run.raced /\ run.prev_state = "link"
    /\ run.pc = "done" /\ run.changed /\ islink(fs0, P) /\ ~lexists(fs, P)

\* an ended real run of state=hard without force over an object that is not
\* the hard link asked for, no other process and no older temporary name
\* in its way
HardNoForce ==
    /\ HardRun /\ Real /\ ~run.params.force /\ ~run.raced /\ TmpFree
    /\ run.prev_state # "absent"
    /\ ~IsHardLinkOf(fs0, run.path, run.params.src)
HardKept == run.pc = "failed" \/ Seen(fs, run.path) = Seen(fs0, run.path)

\* C35: without force ensure_hardlink fails or leaves the object at the
\* path the one it was, whatever that object is: a file, another hard link,
\* a directory or a symbolic link.
C35_HardNoForceKeeps == HardNoForce => HardKept
\* the same for every object but a symbolic link: this much holds
HardNoForceKeepsButLink == HardNoForce /\ run.prev_state # "link" => HardKept
HardNoForceWitness ==
    /\ HardNoForce /\ run.prev_state = "file" /\ run.params.src = S /\ exists(fs0, S)
    /\ run.pc = "failed" /\ fs = fs0

\* the except clause of a replacement reports the failure
ReplaceFails ==
    /\ Replacing /\ run.pc \in {"ln_cleanup", "hl_cleanup"}
    /\ HandlerStep /\ run'.pc = "failed"

\* C36: when making the link under the temporary name or renaming it over
\* a file, hard link or symbolic link fails in ensure_symlink or
\* ensure_hardlink, the object at the path is, when the failure is
\* reported, the one that was there before the run: same kind, same inode,
\* same text.
C36_FailedReplaceKeeps ==
    [][ReplaceFails => Seen(fs', run.path) = Seen(fs0, run.path)
                       /\ lexists(fs', run.path)]_vars
C36_Witness ==
    /\ Replacing /\ run.state = "hard" /\ run.prev_state = "link"
    /\ run.pc = "failed" /\ run.err = "EACCES" /\ run.attrd = {}
    /\ islink(fs, run.path) /\ Seen(fs, run.path) = Seen(fs0, run.path)

DirToLink == run.state = "link" /\ Real /\ run.prev_state = "directory"
\* the directory at the path holds entries
Holds(f, p) == lstat(f, p).kind = "dir" /\ listdir(f, p) # {}

\* C37: a run of ensure_symlink over a directory into which another process
\* put an entry before the removal ends failed, at the rmdir, with the
\* directory that was there before the run and its new entry still in
\* place; and no step of ensure_symlink removes or replaces a directory
\* that holds entries, nor any entry of it.
C37_DirectoryKept ==
    /\ [](DirToLink /\ run.raced /\ Ended
             => /\ run.pc = "failed" /\ run.err = "ENOTEMPTY"
                /\ Holds(fs, run.path)
                /\ lstat(fs, run.path) = lstat(fs0, run.path))
    /\ [][run.state = "link" /\ HandlerStep /\ Holds(fs, run.path)
            => /\ lstat(fs', run.path) = lstat(fs, run.path)
               /\ \A q \in DOMAIN fs : Under(run.path, q) => q \in DOMAIN fs' /\ fs'[q] = fs[q]]_vars
C37_Witness ==
    /\ DirToLink /\ run.raced /\ run.pc = "failed" /\ run.params.force
    /\ lstat(fs0, P).kind = "dir" /\ listdir(fs0, P) = {} /\ Holds(fs, P)

\* the step of a run that makes the link where main found nothing
DirectStep ==
    /\ run.pc \in {"ln_direct", "hl_direct"} /\ HandlerStep
\* the names in use apart from the path of the run
Elsewhere(f) == [q \in DOMAIN f \ {Resolve(fs, run.path, FALSE).path} |-> f[q]]

\* C38: a run of ensure_symlink or ensure_hardlink whose path was classified
\* absent makes the link with one call at the path itself: the step changes
\* no other name and makes no temporary one; when an object is at the path
\* by then, put there by another process, the step fails the run with the
\* error of the call and leaves the filesystem, that object included, as
\* it is.
C38_DirectNeverOverwrites ==
    /\ [](run.pc \in {"ln_direct", "hl_direct"} => run.prev_state = "absent" /\ Real)
    /\ [][DirectStep
            => /\ Elsewhere(fs') = Elsewhere(fs)
               /\ lexists(fs, run.path)
                    => run'.pc = "failed" /\ run'.err # "ok" /\ fs' = fs]_vars
C38_Witness ==
    /\ run.state = "hard" /\ run.prev_state = "absent" /\ run.raced
    /\ run.pc = "failed" /\ run.err = "EEXIST"
    /\ ~lexists(fs0, run.path) /\ lstat(fs, run.path).kind = "file"
    /\ ~IsHardLinkOf(fs, run.path, run.src)

\* a real run of ensure_directory that found nothing at its path
DirFromAbsent ==
    /\ run.state = "directory" /\ Real /\ run.prev_state = "absent"
    /\ run.pc \notin {"idle", "directory"}
\* the segments of the path, the leaf apart, that existed when the run began
Ancestors == {q \in Prefixes(run.path) \ {run.path} : exists(fs0, q)}

\* C39: a run of ensure_directory that creates its path from absent calls
\* for the attributes of segments it found missing and of the leaf only,
\* and every segment above the leaf that existed when the run began is, at
\* every point of the run, the object it was with the attributes it had.
C39_AncestorsUntouched ==
    DirFromAbsent
        => /\ run.attrd \subseteq {q \in Prefixes(run.path) : ~exists(fs0, q)} \cup {run.path}
           /\ \A q \in Ancestors :
                 /\ q \notin run.attrd
                 /\ lstat(fs, q) = lstat(fs0, q) /\ stat(fs, q) = stat(fs0, q)
C39_Witness ==
    /\ DirFromAbsent /\ run.pc = "done" /\ run.params.owner = "alice"
    /\ run.path = <<"/", "p", "s">> /\ Ancestors = {P}
    /\ run.attrd = {run.path}
    /\ lstat(fs, P).owner = "root" /\ lstat(fs, run.path).owner = "alice"

\* the step that is recursive_set_attributes, called without follow
RecurseNoFollow == run.pc = "recurse" /\ ~run.params.follow /\ HandlerStep
\* the names inside the tree of the directory d: every component between d
\* and the name is a directory, not a link to one
Tree(f, d) == {q \in DOMAIN f : Under(Resolve(f, d, TRUE).path, q)}

\* C40: recursive_set_attributes without follow calls for the attributes of
\* names inside the tree of its root only, each of them as the entry it is
\* and none as the target of a link; the step changes no object but those
\* that have a name inside the tree, and creates and removes nothing.
C40_NoFollowStaysInside ==
    [][RecurseNoFollow
         => /\ \A i \in 1..Len(run'.log) :
                  /\ run'.log[i].path \in Tree(fs, run.file_args)
                  /\ run'.log[i].of = <<>>
            /\ run'.attrd \subseteq run.attrd \cup Tree(fs, run.file_args)
            /\ DOMAIN fs' = DOMAIN fs
            /\ \A q \in DOMAIN fs :
                  fs'[q] # fs[q] => \E c \in Tree(fs, run.file_args) : SameObj(fs, q, c)]_vars
C40_Witness ==
    /\ run.state = "directory" /\ run.params.recurse /\ ~run.params.follow
    /\ run.pc = "done" /\ Real /\ run.params.owner = "alice"
    /\ readlink(fs0, <<"/", "p", "s">>) = S /\ lstat(fs, <<"/", "p", "s">>).owner = "alice"
    /\ lstat(fs, S).kind = "dir" /\ lstat(fs, S).owner = "root"
    /\ \E q \in Paths : Under(S, q) /\ lexists(fs, q) /\ lstat(fs, q).owner = "root"
====
